---- MODULE Spec2Model ----
(***************************************************************************)
(* Theme-edit reconciliation of the Verbatims app (src/src/App.jsx):       *)
(* the structured edit engine applyStructuredEdits / applyLegacyPatches,   *)
(* and the React state around it (results, selectedEdits, isLoading,       *)
(* error) with the asynchronous analysis and edit requests.                *)
(***************************************************************************)
EXTENDS Integers, Sequences, FiniteSets, TLC

(***************************************************************************)
(* Bounds of the model.                                                    *)
(***************************************************************************)
\* longest theme list an analysis run delivers / the engine is started on
MaxThemes == 3
\* longest edit batch a model reply carries
MaxOps == 2
\* longest theme list the app holds for a question
MaxAppThemes == 2
\* longest index list of an operation in the single-operation inputs
MaxIdx == 3

(***************************************************************************)
(* JSON / JavaScript values.  Every kind of value is a record with its own *)
(* field name, so that values of different kinds are never compared field  *)
(* by field.  A field of an object that is absent is held as Undef (JSON   *)
(* cannot carry undefined, so absent and undefined coincide).              *)
(***************************************************************************)
Undef == [undef |-> TRUE]
Null == [null |-> TRUE]
NaN == [nan |-> TRUE]
Num(n) == [num |-> n]
Str(s) == [str |-> s]
Arr(s) == [arr |-> s]

IsUndef(x) == "undef" \in DOMAIN x
IsNull(x) == "null" \in DOMAIN x
IsNum(x) == "num" \in DOMAIN x
IsStr(x) == "str" \in DOMAIN x
\* Array.isArray(x)
IsArray(x) == "arr" \in DOMAIN x
\* a non-null, non-array object: a theme or an edit element
IsObject(x) == "ThemeLabel" \in DOMAIN x
\* typeof x === 'object' (true of null and of arrays too)
TypeofObject(x) == IsNull(x) \/ IsArray(x) \/ IsObject(x)
\* x == null  (the test behind ?? and ?.)
Nullish(x) == IsUndef(x) \/ IsNull(x)
\* !x
Falsy(x) ==
    \/ Nullish(x)
    \/ "nan" \in DOMAIN x
    \/ (IsNum(x) /\ x.num = 0)
    \/ (IsStr(x) /\ x.str = "")

\* x?.f : undefined when x is nullish, a primitive or has no such property
Get(x, f) == IF f \in DOMAIN x /\ IsObject(x) THEN x[f] ELSE Undef
\* a ?? b
Coalesce(a, b) == IF Nullish(a) THEN b ELSE a

\* the integers a numeric string of the model can denote
NumericRange == -9 .. 99

\* Number(s) for a string s
StrToNumber(s) ==
    IF s = "" THEN Num(0)
    ELSE IF \E n \in NumericRange : ToString(n) = s
         THEN Num(CHOOSE n \in NumericRange : ToString(n) = s)
         ELSE NaN

RECURSIVE JsString(_)
RECURSIVE JoinFrom(_, _)
\* Array.prototype.join(',') from position k on
JoinFrom(s, k) ==
    IF k > Len(s) THEN ""
    ELSE (IF Nullish(s[k]) THEN "" ELSE JsString(s[k]))
         \o (IF k < Len(s) THEN "," ELSE "") \o JoinFrom(s, k + 1)
\* String(x)
JsString(x) ==
    IF IsStr(x) THEN x.str
    ELSE IF IsNum(x) THEN ToString(x.num)
    ELSE IF IsNull(x) THEN "null"
    ELSE IF IsUndef(x) THEN "undefined"
    ELSE IF "nan" \in DOMAIN x THEN "NaN"
    ELSE IF IsArray(x) THEN JoinFrom(x.arr, 1)
    ELSE "[object Object]"

\* Number(x)
ToNumber(x) ==
    IF IsNum(x) THEN x
    ELSE IF IsNull(x) THEN Num(0)
    ELSE IF IsStr(x) THEN StrToNumber(x.str)
    ELSE IF IsArray(x) THEN StrToNumber(JsString(x))
    ELSE NaN

\* Number.isFinite(x): no coercion, true of numbers only
IsFiniteNumber(x) == IsNum(x)

Max2(a, b) == IF a > b THEN a ELSE b
Min2(a, b) == IF a < b THEN a ELSE b
\* clamp(n, lo, hi)
clamp(n, lo, hi) == Max2(lo, Min2(hi, n))

(***************************************************************************)
(* Theme objects and edit elements.                                        *)
(***************************************************************************)
ThemeObj(l, d, k, p) ==
    [ThemeLabel |-> l, Definition |-> d, RepresentativeKeywords |-> k,
     ParticipantID |-> p]

\* an edit element with no property at all: {}
EmptyObj ==
    [op |-> Undef, index |-> Undef, indices |-> Undef, insertIndex |-> Undef,
     theme |-> Undef, replacements |-> Undef, ThemeLabel |-> Undef,
     Definition |-> Undef, RepresentativeKeywords |-> Undef,
     ParticipantID |-> Undef]

\* An array element of the engine: the object it refers to.  id is the
\* position (1..n) the object had in the caller's array, 0 for an object
\* created by the call; val is the object's content.
Cell(i, v) == [id |-> i, val |-> v]
\* a new object literal { ThemeLabel: ..., ... }
NewObject(v) == Cell(0, v)
\* the themes of an array of cells
Vals(cells) == [i \in 1 .. Len(cells) |-> cells[i].val]
\* the caller's array: its k-th object has identity k
InputCells(themes) == [i \in 1 .. Len(themes) |-> Cell(i, themes[i])]

(***************************************************************************)
(* Array primitives, 0-based as in the source.                             *)
(***************************************************************************)
\* arr.splice(idx, 1)
SpliceOut(arr, idx) == SubSeq(arr, 1, idx) \o SubSeq(arr, idx + 2, Len(arr))
\* arr.splice(idx, 0, ...items)
SpliceIn(arr, idx, items) ==
    SubSeq(arr, 1, idx) \o items \o SubSeq(arr, idx + 1, Len(arr))
\* a slot of an array that was never assigned: it reads as undefined
Hole == [id |-> 0, val |-> Undef]
\* arr[i] = x: past the end the array grows, the slots between are holes
SetAt(arr, i, x) ==
    IF i < Len(arr) THEN [arr EXCEPT ![i + 1] = x]
    ELSE arr \o [k \in 1 .. i - Len(arr) |-> Hole] \o <<x>>

\* the numbers of an array of numbers, as a set: new Set(a)
NumSet(a) == {a[i].num : i \in 1 .. Len(a)}
RECURSIVE SortAsc(_)
\* Array.from(set).sort((a,b)=>a-b)
SortAsc(S) ==
    IF S = {} THEN <<>>
    ELSE LET m == CHOOSE x \in S : \A y \in S : x <= y
         IN <<m>> \o SortAsc(S \ {m})
RECURSIVE SortDesc(_)
\* Array.from(set).sort((a,b)=>b-a)
SortDesc(S) ==
    IF S = {} THEN <<>>
    ELSE LET m == CHOOSE x \in S : \A y \in S : x >= y
         IN <<m>> \o SortDesc(S \ {m})

(***************************************************************************)
(* The structured edit engine.                                             *)
(***************************************************************************)
\* variant of CopyArray: original.slice(1), the first element is lost
CopyArrayTail(a) == [ref |-> "new", elems |-> SubSeq(a.elems, 2, Len(a.elems))]

\* variant of CopyArray: let arr = original, no copy taken
CopyArrayAlias(a) == a

\* [...a]: a new array with the same elements
CopyArray(a) == [ref |-> "new", elems |-> a.elems]

\* t.ParticipantID.map(String)
MapString(a) == Arr([i \in 1 .. Len(a.arr) |-> Str(JsString(a.arr[i]))])

\* normalizeTheme(t, fallbackLabel)
normalizeTheme(t, fallbackLabel) ==
    ThemeObj(
        Coalesce(Get(t, "ThemeLabel"), Str(fallbackLabel)),
        Coalesce(Get(t, "Definition"), Str("")),
        IF IsArray(Get(t, "RepresentativeKeywords"))
            THEN Get(t, "RepresentativeKeywords") ELSE Arr(<<>>),
        IF IsArray(Get(t, "ParticipantID"))
            THEN MapString(Get(t, "ParticipantID")) ELSE Arr(<<>>))

\* variant of applyLegacyPatch: the theme is overwritten wholesale, as a
\* replace does
applyLegacyPatchOverwrite(copy, p) ==
    LET i == ToNumber(Get(p, "index"))
    IN IF ~IsFiniteNumber(i) \/ i.num < 0 \/ i.num >= Len(copy) THEN copy
       ELSE SetAt(copy, i.num,
                  NewObject(normalizeTheme(p, "Theme " \o ToString(i.num + 1))))

\* the body of patches.forEach in applyLegacyPatches, for one patch p
applyLegacyPatch(copy, p) ==
    LET i == ToNumber(Get(p, "index"))
    IN IF ~IsFiniteNumber(i) \/ i.num < 0 \/ i.num >= Len(copy) THEN copy
       ELSE LET old == copy[i.num + 1].val
            IN SetAt(copy, i.num, NewObject(ThemeObj(
                   Coalesce(Get(p, "ThemeLabel"),
                       Coalesce(Get(old, "ThemeLabel"),
                           Str("Theme " \o ToString(i.num + 1)))),
                   Coalesce(Get(p, "Definition"),
                       Coalesce(Get(old, "Definition"), Str(""))),
                   IF IsArray(Get(p, "RepresentativeKeywords"))
                       THEN Get(p, "RepresentativeKeywords")
                       ELSE IF Falsy(Get(old, "RepresentativeKeywords"))
                            THEN Arr(<<>>)
                            ELSE Get(old, "RepresentativeKeywords"),
                   IF IsArray(Get(p, "ParticipantID"))
                       THEN MapString(Get(p, "ParticipantID"))
                       ELSE IF Falsy(Get(old, "ParticipantID"))
                            THEN Arr(<<>>)
                            ELSE Get(old, "ParticipantID"))))

RECURSIVE LegacyFrom(_, _, _)
LegacyFrom(copy, patches, k) ==
    IF k > Len(patches) THEN copy
    ELSE LegacyFrom(applyLegacyPatch(copy, patches[k]), patches, k + 1)

\* applyLegacyPatches(arr, patches)
applyLegacyPatches(arr, patches) ==
    LET copy == CopyArray(arr)
    IN [ref |-> copy.ref, elems |-> LegacyFrom(copy.elems, patches, 1)]

RECURSIVE RemoveEach(_, _, _)
\* for each index of the sequence, in its order:
\*   if (idx >= 0 && idx < arr.length) arr.splice(idx, 1)
RemoveEach(arr, indices, k) ==
    IF k > Len(indices) THEN arr
    ELSE LET idx == indices[k]
         IN RemoveEach(IF idx >= 0 /\ idx < Len(arr) THEN SpliceOut(arr, idx)
                       ELSE arr,
                       indices, k + 1)

\* variant of ApplyMerge: the originals are removed lowest to highest
ApplyMergeAscending(arr, op) ==
    LET indices == IF IsArray(op.indices) THEN SortAsc(NumSet(op.indices.arr))
                   ELSE <<>>
    IN IF Len(indices) = 0 THEN arr
       ELSE LET insertIndex == IF IsFiniteNumber(op.insertIndex)
                               THEN clamp(op.insertIndex.num, 0, Len(arr))
                               ELSE indices[1]
                removed == RemoveEach(arr, indices, 1)
                ii == clamp(insertIndex, 0, Len(removed))
            IN SpliceIn(removed, ii,
                        <<NewObject(normalizeTheme(op, "Merged Theme"))>>)

\* the merge branch of phase 1, for one op
ApplyMerge(arr, op) ==
    LET indices == IF IsArray(op.indices) THEN SortAsc(NumSet(op.indices.arr))
                   ELSE <<>>
    IN IF Len(indices) = 0 THEN arr
       ELSE LET insertIndex == IF IsFiniteNumber(op.insertIndex)
                               THEN clamp(op.insertIndex.num, 0, Len(arr))
                               ELSE indices[1]
                merged == normalizeTheme(op, "Merged Theme")
                \* highest to lowest
                removed == RemoveEach(arr, SortDesc(NumSet(op.indices.arr)), 1)
                ii == clamp(insertIndex, 0, Len(removed))
            IN SpliceIn(removed, ii, <<NewObject(merged)>>)

\* variant of ApplySplit: the original is not removed
ApplySplitKeep(arr, op) ==
    LET idx == ToNumber(op.index)
    IN IF ~IsFiniteNumber(idx) \/ idx.num < 0 \/ idx.num >= Len(arr) THEN arr
       ELSE IF ~IsArray(op.replacements) THEN arr
       ELSE SpliceIn(arr,
                     IF IsFiniteNumber(op.insertIndex)
                     THEN clamp(op.insertIndex.num, 0, Len(arr)) ELSE idx.num,
                     [j \in 1 .. Len(op.replacements.arr) |->
                         NewObject(normalizeTheme(op.replacements.arr[j],
                                                  "Split " \o ToString(j)))])

\* the split branch of phase 1, for one op
ApplySplit(arr, op) ==
    LET idx == ToNumber(op.index)
    IN IF ~IsFiniteNumber(idx) \/ idx.num < 0 \/ idx.num >= Len(arr) THEN arr
       ELSE LET replacements ==
                    IF IsArray(op.replacements)
                    THEN [j \in 1 .. Len(op.replacements.arr) |->
                            normalizeTheme(op.replacements.arr[j],
                                           "Split " \o ToString(j))]
                    ELSE <<>>
            IN IF Len(replacements) = 0 THEN arr
               ELSE LET removed == SpliceOut(arr, idx.num)
                        insertIndex ==
                            IF IsFiniteNumber(op.insertIndex)
                            THEN clamp(op.insertIndex.num, 0, Len(removed))
                            ELSE idx.num
                        toInsert == [j \in 1 .. Len(replacements) |->
                                        NewObject(replacements[j])]
                    IN SpliceIn(removed, insertIndex, toInsert)

\* variant of ApplyDelete: the indices are removed lowest first
ApplyDeleteAscending(arr, op) ==
    RemoveEach(arr, IF IsArray(op.indices) THEN SortAsc(NumSet(op.indices.arr))
                    ELSE <<>>, 1)

\* one delete op: its own indices, deduplicated, highest first
ApplyDelete(arr, op) ==
    LET indices == IF IsArray(op.indices) THEN SortDesc(NumSet(op.indices.arr))
                   ELSE <<>>
    IN RemoveEach(arr, indices, 1)

\* variant of ApplyReplace: no upper bound test on the index
ApplyReplaceUnchecked(arr, op) ==
    LET i == ToNumber(op.index)
    IN IF ~IsFiniteNumber(i) \/ i.num < 0 THEN arr
       ELSE SetAt(arr, i.num,
                  NewObject(normalizeTheme(op.theme,
                                           "Theme " \o ToString(i.num + 1))))

\* variant of ApplyReplace: a per-field merge, as a legacy patch does: the
\* fields op.theme omits keep the value of the previous theme
ApplyReplaceMerge(arr, op) ==
    applyLegacyPatch(arr, [f \in DOMAIN EmptyObj |->
                              IF f = "index" THEN op.index
                              ELSE Get(op.theme, f)])

\* one replace op
ApplyReplace(arr, op) ==
    LET i == ToNumber(op.index)
    IN IF ~IsFiniteNumber(i) \/ i.num < 0 \/ i.num >= Len(arr) THEN arr
       ELSE SetAt(arr, i.num,
                  NewObject(normalizeTheme(op.theme,
                                           "Theme " \o ToString(i.num + 1))))

\* variant of ApplyInsert: the index is not clamped, arr[i] = theme is
\* assigned past the end
ApplyInsertUnclamped(arr, op) ==
    LET i == ToNumber(op.index)
    IN IF ~IsFiniteNumber(i) THEN arr
       ELSE IF i.num > Len(arr)
            THEN SetAt(arr, i.num,
                       NewObject(normalizeTheme(op.theme,
                                                "Theme " \o ToString(i.num + 1))))
            ELSE SpliceIn(arr, Max2(i.num, 0),
                          <<NewObject(normalizeTheme(op.theme,
                                "Theme " \o ToString(Max2(i.num, 0) + 1)))>>)

\* variant of ApplyInsert: splice(idx, 1, theme), the slot is overwritten
ApplyInsertOverwrite(arr, op) ==
    LET i == ToNumber(op.index)
    IN IF ~IsFiniteNumber(i) THEN arr
       ELSE LET idx == clamp(i.num, 0, Len(arr))
            IN SpliceIn(SpliceOut(arr, idx), Min2(idx, Len(SpliceOut(arr, idx))),
                   <<NewObject(normalizeTheme(op.theme,
                                              "Theme " \o ToString(idx + 1)))>>)

\* variant of ApplyInsert: an index outside [0, length] is skipped
ApplyInsertStrict(arr, op) ==
    LET i == ToNumber(op.index)
    IN IF ~IsFiniteNumber(i) \/ i.num < 0 \/ i.num > Len(arr) THEN arr
       ELSE SpliceIn(arr, i.num,
                <<NewObject(normalizeTheme(op.theme,
                                           "Theme " \o ToString(i.num + 1)))>>)

\* one insert op
ApplyInsert(arr, op) ==
    LET i == ToNumber(op.index)
    IN IF ~IsFiniteNumber(i) THEN arr
       ELSE LET idx == clamp(i.num, 0, Len(arr))
            IN SpliceIn(arr, idx,
                   <<NewObject(normalizeTheme(op.theme,
                                              "Theme " \o ToString(idx + 1)))>>)

OpIs(o, name) == IsStr(o.op) /\ o.op.str = name
IsMergeSplit(o) == OpIs(o, "merge") \/ OpIs(o, "split")
IsDelete(o) == OpIs(o, "delete")
IsReplace(o) == OpIs(o, "replace")
IsInsert(o) == OpIs(o, "insert")

\* the callback of phase 1: both ifs, at most one of which applies
ApplyMergeSplit(arr, op) ==
    IF OpIs(op, "merge") THEN ApplyMerge(arr, op)
    ELSE IF OpIs(op, "split") THEN ApplySplit(arr, op)
    ELSE arr

RECURSIVE MergeSplitFrom(_, _, _)
MergeSplitFrom(arr, ops, k) ==
    IF k > Len(ops) THEN arr
    ELSE MergeSplitFrom(ApplyMergeSplit(arr, ops[k]), ops, k + 1)
\* variant of MergeSplitPhase: the merges run first, then the splits
MergeSplitPhaseMergesFirst(arr, ops) ==
    LET IsMerge(o) == OpIs(o, "merge")
        IsSplit(o) == OpIs(o, "split")
    IN MergeSplitFrom(MergeSplitFrom(arr, SelectSeq(ops, IsMerge), 1),
                      SelectSeq(ops, IsSplit), 1)
\* 1) MERGE & SPLIT
MergeSplitPhase(arr, ops) == MergeSplitFrom(arr, SelectSeq(ops, IsMergeSplit), 1)

RECURSIVE DeleteFrom(_, _, _)
DeleteFrom(arr, ops, k) ==
    IF k > Len(ops) THEN arr
    ELSE DeleteFrom(ApplyDelete(arr, ops[k]), ops, k + 1)
\* 2) DELETE
DeletePhase(arr, ops) == DeleteFrom(arr, SelectSeq(ops, IsDelete), 1)

RECURSIVE ReplaceFrom(_, _, _)
ReplaceFrom(arr, ops, k) ==
    IF k > Len(ops) THEN arr
    ELSE ReplaceFrom(ApplyReplace(arr, ops[k]), ops, k + 1)
\* 3) REPLACE
ReplacePhase(arr, ops) == ReplaceFrom(arr, SelectSeq(ops, IsReplace), 1)

RECURSIVE InsertFrom(_, _, _)
InsertFrom(arr, ops, k) ==
    IF k > Len(ops) THEN arr
    ELSE InsertFrom(ApplyInsert(arr, ops[k]), ops, k + 1)
\* 4) INSERT
InsertPhase(arr, ops) == InsertFrom(arr, SelectSeq(ops, IsInsert), 1)

\* one op applied on its own, whatever its kind
ApplyOneOp(arr, op) ==
    IF IsMergeSplit(op) THEN ApplyMergeSplit(arr, op)
    ELSE IF IsDelete(op) THEN ApplyDelete(arr, op)
    ELSE IF IsReplace(op) THEN ApplyReplace(arr, op)
    ELSE IF IsInsert(op) THEN ApplyInsert(arr, op)
    ELSE arr
RECURSIVE InOrderFrom(_, _, _)
InOrderFrom(arr, ops, k) ==
    IF k > Len(ops) THEN arr
    ELSE InOrderFrom(ApplyOneOp(arr, ops[k]), ops, k + 1)
\* the ops applied one after the other in the order given
InOrder(arr, ops) == InOrderFrom(arr, ops, 1)

\* variant of TaggedPath: a single pass over the ops in input order
TaggedPathInOrder(arr, ops) == InOrder(arr, ops)
\* variant of TaggedPath: the replace phase runs before the delete phase
TaggedPathReplaceFirst(arr, ops) ==
    InsertPhase(DeletePhase(ReplacePhase(MergeSplitPhase(arr, ops), ops), ops), ops)

\* the four phases on the op list
TaggedPath(arr, ops) ==
    InsertPhase(ReplacePhase(DeletePhase(MergeSplitPhase(arr, ops), ops), ops), ops)

RECURSIVE EveryLegacyFrom(_, _)
\* edits.every(e => typeof e === 'object' && !('op' in e)), left to right:
\* "legacy" when every element passes, "tagged" at the first that does not,
\* "throw" when the in operator meets null (TypeError)
EveryLegacyFrom(edits, k) ==
    IF k > Len(edits) THEN "legacy"
    ELSE LET e == edits[k]
         IN IF ~TypeofObject(e) THEN "tagged"
            ELSE IF IsNull(e) THEN "throw"
            ELSE IF IsObject(e) /\ ~IsUndef(e.op) THEN "tagged"
            ELSE EveryLegacyFrom(edits, k + 1)
looksLegacy(edits) == EveryLegacyFrom(edits, 1)

\* { ...e }: the own properties of e; none for null and numbers
Spread(e) == IF IsObject(e) THEN e ELSE EmptyObj

\* the outcome of a call that threw
Threw == [threw |-> TRUE, ref |-> "none", elems |-> <<>>]
Returned(a) == [threw |-> FALSE, ref |-> a.ref, elems |-> a.elems]

\* applyStructuredEdits(original, edits), edits an array
applyStructuredEdits(original, edits) ==
    LET arr == CopyArray(original)
    IN IF Len(edits) = 0 THEN Returned(arr)
       ELSE LET shape == looksLegacy(edits)
            IN IF shape = "throw" THEN Threw
               ELSE IF shape = "legacy"
                    THEN Returned(applyLegacyPatches(arr, edits))
               ELSE LET ops == [k \in 1 .. Len(edits) |-> Spread(edits[k])]
                    IN Returned([ref |-> arr.ref,
                                 elems |-> TaggedPath(arr.elems, ops)])

(***************************************************************************)
(* Inputs of the engine: theme lists and edit batches.                     *)
(***************************************************************************)
\* the i-th theme of an extraction result; neighbours share a participant
InitialTheme(i) ==
    ThemeObj(Str("T" \o ToString(i)), Str("def"), Arr(<<Str("kw")>>),
             Arr(<<Str(ToString(i)), Str(ToString(i + 1))>>))
InitialThemes(n) == [i \in 1 .. n |-> InitialTheme(i)]

\* themes a model reply carries: complete (with a numeric ID), partial
ThemeX == ThemeObj(Str("X"), Str("dx"), Arr(<<Str("kx")>>), Arr(<<Num(1), Str("8")>>))
ThemeY == ThemeObj(Str("Y"), Undef, Undef, Arr(<<Str("9")>>))

NumArr(s) == Arr([i \in 1 .. Len(s) |-> Num(s[i])])

MergeOp(indices, insertIndex, label, ids) ==
    [EmptyObj EXCEPT !.op = Str("merge"), !.indices = indices,
                     !.insertIndex = insertIndex, !.ThemeLabel = label,
                     !.ParticipantID = ids]
SplitOp(index, replacements, insertIndex) ==
    [EmptyObj EXCEPT !.op = Str("split"), !.index = index,
                     !.replacements = replacements, !.insertIndex = insertIndex]
DeleteOp(indices) == [EmptyObj EXCEPT !.op = Str("delete"), !.indices = indices]
ReplaceOp(index, theme) ==
    [EmptyObj EXCEPT !.op = Str("replace"), !.index = index, !.theme = theme]
InsertOp(index, theme) ==
    [EmptyObj EXCEPT !.op = Str("insert"), !.index = index, !.theme = theme]
\* an untagged element: a legacy patch
Patch(index, label, def, ids) ==
    [EmptyObj EXCEPT !.index = index, !.ThemeLabel = label, !.Definition = def,
                     !.ParticipantID = ids]

MergeOps ==
    { MergeOp(NumArr(<<0, 2>>), Undef, Str("M"), Arr(<<Num(1), Str("2")>>)),
      MergeOp(NumArr(<<1, 0, 1>>), Num(9), Str("M"), Arr(<<Str("1")>>)),
      MergeOp(NumArr(<<0, 1>>), Num(0), Undef, Undef),
      MergeOp(NumArr(<<5>>), Undef, Str("M"), Undef),
      MergeOp(Undef, Undef, Str("M"), Undef) }
SplitOps ==
    { SplitOp(Num(1), Arr(<<ThemeX, ThemeY>>), Undef),
      SplitOp(Num(0), Arr(<<ThemeX>>), Num(2)),
      SplitOp(Num(9), Arr(<<ThemeX>>), Undef),
      SplitOp(Num(0), Undef, Undef),
      SplitOp(Str("1"), Arr(<<Null, ThemeY>>), Undef) }
DeleteOps ==
    { DeleteOp(NumArr(<<0>>)), DeleteOp(NumArr(<<1>>)),
      DeleteOp(NumArr(<<0, 2>>)), DeleteOp(NumArr(<<2, 0, 0>>)),
      DeleteOp(NumArr(<<9, -1>>)), DeleteOp(Str("0")) }
ReplaceOps ==
    { ReplaceOp(Num(0), ThemeX), ReplaceOp(Num(1), ThemeY),
      ReplaceOp(Num(2), ThemeX), ReplaceOp(Num(99), ThemeX),
      ReplaceOp(Null, Undef) }
InsertOps ==
    { InsertOp(Num(0), ThemeX), InsertOp(Num(5), ThemeY),
      InsertOp(Num(-1), ThemeX), InsertOp(Undef, ThemeX),
      InsertOp(Num(1), Undef) }
Patches ==
    { Patch(Num(0), Undef, Str("new"), Undef),
      Patch(Num(1), Str("L"), Undef, Arr(<<Num(7)>>)),
      Patch(Str("x"), Str("L"), Undef, Undef) }
\* elements that are no operation: null, a number, an object with an unknown op
Malformed ==
    { Null, Num(7), [EmptyObj EXCEPT !.op = Str("rename"), !.index = Num(0)] }

Elements ==
    MergeOps \cup SplitOps \cup DeleteOps \cup ReplaceOps \cup InsertOps
        \cup Patches \cup Malformed

SeqsUpTo(S, n) == UNION {[1 .. k -> S] : k \in 0 .. n}
Batches == SeqsUpTo(Elements, MaxOps)

\* the caller's arrays the engine is started on
InputArray(themes) == [ref |-> "input", elems |-> InputCells(themes)]
Originals == {InputArray(InitialThemes(n)) : n \in 0 .. MaxThemes}

NotCalled == [threw |-> FALSE, ref |-> "none", elems |-> <<>>]

\* Batches of one operation, with every index list and index the model
\* reply can name around the bounds of the theme list.
IndexRange == -1 .. MaxThemes + 1
IndexLists == SeqsUpTo(IndexRange, MaxIdx)
Indexes == {Num(i) : i \in IndexRange} \cup {Num(99), Str("1"), Undef}
PartialThemes == {ThemeX, ThemeY, Undef}

SingleMerges ==
    { MergeOp(NumArr(s), ii, Str("M"), Arr(<<Num(1), Str("2")>>)) :
        s \in IndexLists, ii \in {Undef, Num(0), Num(MaxThemes + 2)} }
        \cup { MergeOp(NumArr(s), Undef, Undef, Undef) : s \in IndexLists }
SingleSplits ==
    { SplitOp(i, r, ii) :
        i \in Indexes,
        r \in {Undef, Arr(<<>>), Arr(<<ThemeX>>), Arr(<<ThemeX, ThemeY>>),
               Arr(<<Null, ThemeY, ThemeX>>)},
        ii \in {Undef, Num(0), Num(2)} }
SingleDeletes == { DeleteOp(NumArr(s)) : s \in IndexLists }
SingleReplaces == { ReplaceOp(i, t) : i \in Indexes, t \in PartialThemes }
SingleInserts == { InsertOp(i, t) : i \in Indexes, t \in PartialThemes }

\* legacy patches carrying every subset of the four fields
SinglePatches ==
    { [Patch(i, l, d, p) EXCEPT !.RepresentativeKeywords = k] :
        i \in Indexes,
        l \in {Undef, Str("L")},
        d \in {Undef, Str("new")},
        k \in {Undef, Arr(<<Str("k2")>>)},
        p \in {Undef, Arr(<<Num(7), Str("8")>>)} }
\* two patches in one batch, on the same theme or on two themes
PairPatches ==
    { [Patch(Num(i), l, Undef, p) EXCEPT !.RepresentativeKeywords = k] :
        i \in {0, 1},
        l \in {Undef, Str("L"), Str("L2")},
        k \in {Undef, Arr(<<Str("k2")>>)},
        p \in {Undef, Arr(<<Num(7), Str("8")>>)} }

SingleBatches ==
    {<<>>}
        \cup { <<e>> : e \in SingleMerges \cup SingleSplits \cup SingleDeletes
                            \cup SingleReplaces \cup SingleInserts
                            \cup SinglePatches }
        \cup { <<p, q>> : p \in PairPatches, q \in PairPatches }

(***************************************************************************)
(* The Verbatims app: React state and handlers.                            *)
(***************************************************************************)
\* the question columns of the uploaded CSV
Questions == {"Q1", "Q2"}

\* allResults[col] = { _error: ... } / { _raw: ... }
ErrorMarker == [marker |-> "_error"]
RawMarker == [marker |-> "_raw"]

\* what one column of an analysis run can leave in allResults: the parsed
\* reply (an array of themes, or any other JSON value), or a marker
AnalysisEntries ==
    {Arr(InitialThemes(n)) : n \in 0 .. MaxAppThemes}
        \cup {ErrorMarker, RawMarker, Num(5)}

\* the edit batches a model reply can carry in the app: nothing, a shorter
\* list, a longer list, a changed theme, an element the engine throws on
ReplyBatches ==
    { <<>>,
      <<DeleteOp(NumArr(<<0>>))>>,
      <<InsertOp(Num(0), ThemeX)>>,
      <<ReplaceOp(Num(0), ThemeX)>>,
      <<Null>> }

(***************************************************************************)
(* The lenient parser of model replies, parseJsonMaybe.  A text is a       *)
(* sequence of lexemes: the JSON punctuation, the digits, the member key   *)
(* "k": (held as k), a prose word p, a run of three backticks (held as     *)
(* fence), the word json and a blank.  Positions are counted in lexemes.   *)
(***************************************************************************)
\* longest JSON-like core of a reply text
MaxText == 4

Digits == {"1", "2", "3"}
DigitVal(d) == CHOOSE n \in 1 .. 3 : ToString(n) = d
\* a parsed JSON object: its members all have the key k, so it holds the
\* value of the last member, or none
Obj(members) == [obj |-> members]

\* the lexeme at position i (1-based), "" past the end
At(t, i) == IF i >= 1 /\ i <= Len(t) THEN t[i] ELSE ""
RECURSIVE SkipWs(_, _)
SkipWs(t, i) == IF At(t, i) = " " THEN SkipWs(t, i + 1) ELSE i

ParseFail == [ok |-> FALSE, val |-> Undef, next |-> 0]
ParseOk(v, n) == [ok |-> TRUE, val |-> v, next |-> n]

RECURSIVE ParseNumber(_, _, _)
\* a run of digits is one number
ParseNumber(t, i, acc) ==
    IF At(t, i) \in Digits THEN ParseNumber(t, i + 1, 10 * acc + DigitVal(t[i]))
    ELSE ParseOk(Num(acc), i)

RECURSIVE ParseValue(_, _)
RECURSIVE ParseElems(_, _, _)
RECURSIVE ParseMembers(_, _, _)
\* the JSON grammar: value := number | [ ] | [ value (, value)* ]
\*                           | { } | { k value (, k value)* }
ParseValue(t, i0) ==
    LET i == SkipWs(t, i0)
        c == At(t, i)
        j == SkipWs(t, i + 1)
    IN IF c \in Digits THEN ParseNumber(t, i, 0)
       ELSE IF c = "[" THEN IF At(t, j) = "]" THEN ParseOk(Arr(<<>>), j + 1)
                            ELSE ParseElems(t, j, <<>>)
       ELSE IF c = "{" THEN IF At(t, j) = "}" THEN ParseOk(Obj(<<>>), j + 1)
                            ELSE ParseMembers(t, j, <<>>)
       ELSE ParseFail
ParseElems(t, i, acc) ==
    LET v == ParseValue(t, i)
        j == SkipWs(t, v.next)
    IN IF ~v.ok THEN ParseFail
       ELSE IF At(t, j) = "," THEN ParseElems(t, j + 1, Append(acc, v.val))
       ELSE IF At(t, j) = "]" THEN ParseOk(Arr(Append(acc, v.val)), j + 1)
       ELSE ParseFail
ParseMembers(t, i0, acc) ==
    LET i == SkipWs(t, i0)
        v == ParseValue(t, i + 1)
        j == SkipWs(t, v.next)
    IN IF At(t, i) # "k" THEN ParseFail
       ELSE IF ~v.ok THEN ParseFail
       ELSE IF At(t, j) = "," THEN ParseMembers(t, j + 1, <<v.val>>)
       ELSE IF At(t, j) = "}" THEN ParseOk(Obj(<<v.val>>), j + 1)
       ELSE ParseFail

\* JSON.parse(t): one value and nothing but blanks after it, or a SyntaxError
JSONParse(t) ==
    LET v == ParseValue(t, 1)
    IN IF v.ok /\ SkipWs(t, v.next) > Len(t) THEN [ok |-> TRUE, val |-> v.val]
       ELSE [ok |-> FALSE, val |-> Undef]

RECURSIVE DropLeading(_, _)
\* t without its leading run of the lexeme c
DropLeading(t, c) ==
    IF Len(t) > 0 /\ t[1] = c THEN DropLeading(SubSeq(t, 2, Len(t)), c) ELSE t
RECURSIVE DropTrailing(_, _)
DropTrailing(t, c) ==
    IF Len(t) > 0 /\ t[Len(t)] = c THEN DropTrailing(SubSeq(t, 1, Len(t) - 1), c)
    ELSE t
\* t.trim()
trim(t) == DropTrailing(DropLeading(t, " "), " ")
\* t.indexOf(c), t.lastIndexOf(c): 0-based, -1 when absent
indexOf(t, c) ==
    IF \E i \in 1 .. Len(t) : t[i] = c
    THEN (CHOOSE i \in 1 .. Len(t) : t[i] = c /\ \A k \in 1 .. i - 1 : t[k] # c) - 1
    ELSE -1
lastIndexOf(t, c) ==
    IF \E i \in 1 .. Len(t) : t[i] = c
    THEN (CHOOSE i \in 1 .. Len(t) :
              t[i] = c /\ \A k \in i + 1 .. Len(t) : t[k] # c) - 1
    ELSE -1
\* t.slice(i, j + 1)
slice(t, i, j) == SubSeq(t, i + 1, j + 1)

\* the trimmed text without its fences: the leading backticks, the json
\* tag and the trailing backticks, when the text starts with backticks
StripFences(t0) ==
    LET t == trim(t0)
        t1 == trim(DropLeading(t, "fence"))
        t2 == trim(IF At(t1, 1) = "json" THEN SubSeq(t1, 2, Len(t1)) ELSE t1)
        t3 == trim(DropTrailing(t2, "fence"))
    IN IF At(t, 1) = "fence" THEN t3 ELSE t

\* the text of a reply
Text(t) == [chars |-> t]
ParseThrew == [threw |-> TRUE, value |-> Undef]
ParseReturned(v) == [threw |-> FALSE, value |-> v]

\* variant of parseJsonMaybe: the straight parse only, no block extracted
parseJsonStrict(text) ==
    IF Nullish(text) THEN ParseReturned(Arr(<<>>))
    ELSE IF JSONParse(StripFences(text.chars)).ok
         THEN ParseReturned(JSONParse(StripFences(text.chars)).val)
         ELSE ParseThrew

\* parseJsonMaybe(text)
parseJsonMaybe(text) ==
    IF Nullish(text) THEN ParseReturned(Arr(<<>>))
    ELSE LET t == StripFences(text.chars)
             i == indexOf(t, "[")
             j == lastIndexOf(t, "]")
             oi == indexOf(t, "{")
             oj == lastIndexOf(t, "}")
         IN IF JSONParse(t).ok THEN ParseReturned(JSONParse(t).val)
            ELSE IF i # -1 /\ j # -1 /\ j > i /\ JSONParse(slice(t, i, j)).ok
                 THEN ParseReturned(JSONParse(slice(t, i, j)).val)
            ELSE IF oi # -1 /\ oj # -1 /\ oj > oi /\ JSONParse(slice(t, oi, oj)).ok
                 THEN ParseReturned(JSONParse(slice(t, oi, oj)).val)
            ELSE ParseThrew

\* Reply texts: a JSON-like core of up to MaxText lexemes, bare, after a
\* blank, in prose or in fences; the text of the worked example; no text.
CoreLexemes == {"[", "]", "{", "}", "1", ",", "k"}
Leads == {<<>>, <<" ">>, <<"p", " ">>, <<"fence">>, <<"fence", "json", " ">>}
Trails == {<<>>, <<" ", "p">>, <<" ", "fence">>}
\* "Sure! Here you go: [1,2,3] Hope that helps."
ProseExample ==
    Text(<<"p", " ", "[", "1", ",", "2", ",", "3", "]", " ", "p">>)
ReplyTexts ==
    {Null, ProseExample}
        \cup {Text(l \o c \o r) :
                l \in Leads, c \in SeqsUpTo(CoreLexemes, MaxText), r \in Trails}

(***************************************************************************)
(* The loop of analyzeData over the question columns.                      *)
(***************************************************************************)
\* what llmThemeExtract resolves with for a column: a failure, or a content
\* together with what parseJsonMaybe makes of it
Failed == [ok |-> FALSE]
Replied(p) == [ok |-> TRUE, parse |-> p]
\* the column is not among columnsToProcess
NotProcessed == [skipped |-> TRUE]
ColumnReplies ==
    {Failed, Replied(ParseThrew)}
        \cup {Replied(ParseReturned(v)) :
                v \in {Arr(InitialThemes(n)) : n \in 0 .. MaxAppThemes}
                          \cup {Num(5), Obj(<<>>)}}
\* the question columns in the order of the CSV header
QuestionOrder == <<"Q1", "Q2">>
columnsToProcess(rs) ==
    LET Kept(q) == rs[q] # NotProcessed
    IN SelectSeq(QuestionOrder, Kept)
\* const allResults = {}
NoResults == [q \in Questions |-> Undef]
\* the body of the loop for one column
processColumn(allResults, col, rp) ==
    [allResults EXCEPT ![col] =
        IF ~rp.ok THEN ErrorMarker
        ELSE IF rp.parse.threw THEN RawMarker
        ELSE rp.parse.value]

RECURSIVE analyzeLoopStopAtFailure(_, _, _, _)
\* variant of analyzeLoop: the loop ends at the first column that fails
analyzeLoopStopAtFailure(cols, rs, k, allResults) ==
    IF k > Len(cols) THEN allResults
    ELSE IF ~rs[cols[k]].ok THEN processColumn(allResults, cols[k], rs[cols[k]])
    ELSE analyzeLoopStopAtFailure(cols, rs, k + 1,
                                  processColumn(allResults, cols[k], rs[cols[k]]))

RECURSIVE analyzeLoop(_, _, _, _)
\* for (const col of columnsToProcess) { ... }
analyzeLoop(cols, rs, k, allResults) ==
    IF k > Len(cols) THEN allResults
    ELSE analyzeLoop(cols, rs, k + 1,
                     processColumn(allResults, cols[k], rs[cols[k]]))
\* the replies of a run in the app: those that leave one of AnalysisEntries
AppReplies ==
    {rp \in ColumnReplies : processColumn(NoResults, "Q1", rp)["Q1"] \in AnalysisEntries}

(***************************************************************************)
(* The request helper postChatWithBackoff.                                 *)
(***************************************************************************)
\* the defaults of its options, and the cap of the base delay
maxRetries == 6
initialDelayMs == 1500
jitterMs == 400
maxDelayMs == 12000

\* what axios.post settles with: a response, or an error carrying the
\* response of the server (its status, its Retry-After header) or none
Response(status, ra) == [status |-> status, retryAfter |-> ra]
Responses ==
    {Response(Num(200), Undef), Response(Undef, Undef)}
        \cup {Response(Num(st), ra) :
                st \in {429, 500, 503},
                ra \in {Undef, Str("2"), Str("0"), Str(""), Str("Wed")}}
        \cup {Response(Num(st), ra) : st \in {400, 404}, ra \in {Undef, Str("2")}}
\* axios resolves on a 2xx status
Resolves(resp) == IsNum(resp.status) /\ resp.status.num >= 200 /\ resp.status.num < 300
\* Math.floor(Math.random() * jitterMs), at its two ends
Jitters == {0, jitterMs - 1}

\* variant of Retryable: every failure is retried
RetryableAny(status) == TRUE

\* status === 429 || status >= 500
Retryable(status) == IsNum(status) /\ (status.num = 429 \/ status.num >= 500)

\* ra ? Math.ceil(Number(ra) * 1000) : delay + jitter
WaitFor(ra, d, jitter) ==
    IF Falsy(ra) THEN Num(d + jitter)
    ELSE IF IsNum(ToNumber(ra)) THEN Num(ToNumber(ra).num * 1000)
    ELSE NaN

VARIABLES
    original,       \* engine harness: the array the engine is called on
    edits,          \* engine harness: the batch
    returned,       \* engine harness: the outcome of the call
    apiKey,         \* TRUE when the API key field is not blank
    csvData,        \* TRUE when a CSV is loaded (csvData !== null)
    results,        \* Null, or question -> entry (Undef: no such key)
    selectedEdits,  \* question -> set of selected theme indices
    isLoading,
    error,          \* '' or the message shown
    pending,        \* the asynchronous handlers awaiting the model
    crashed,        \* a state updater threw during render
    rows,           \* coverage harness: the rows of csvData, or Null
    qThemes,        \* coverage harness: the theme list of the question
    skipBlankCells, \* coverage harness: the skip-blanks setting
    pct,            \* coverage harness: the percentage shown per theme
    replyText,      \* parser harness: the reply text, or Null
    parsed,         \* parser harness: the outcome of parseJsonMaybe
    attempt,        \* postChatWithBackoff: retries counted so far
    delay,          \* postChatWithBackoff: the base delay in ms
    waitMs,         \* postChatWithBackoff: the wait of the current sleep
    requests,       \* postChatWithBackoff: calls of axios.post made
    last,           \* postChatWithBackoff: the response to the last request
    backoff,        \* postChatWithBackoff: idle, post, sleep, returned, threw
    replies         \* analysis harness: column -> what llmThemeExtract gave

engineVars == <<original, edits, returned>>
appVars == <<apiKey, csvData, results, selectedEdits, isLoading, error, pending, crashed>>
coverageVars == <<rows, qThemes, skipBlankCells, pct>>
parserVars == <<replyText, parsed>>
backoffVars == <<attempt, delay, waitMs, requests, last, backoff>>
analysisVars == <<replies>>
vars == <<original, edits, returned, apiKey, csvData, results, selectedEdits,
          isLoading, error, pending, crashed, rows, qThemes, skipBlankCells, pct,
          replyText, parsed, attempt, delay, waitMs, requests, last, backoff,
          replies>>

\* the theme blocks have not been rendered
NotRendered == [none |-> TRUE]
\* the coverage harness at rest
CoverageIdle ==
    /\ rows = Null
    /\ qThemes = Arr(<<>>)
    /\ skipBlankCells = TRUE
    /\ pct = NotRendered

\* parseJsonMaybe has not been called
NotParsed == [idle |-> TRUE]
\* no response received
NoResponse == [status |-> Undef, retryAfter |-> Undef]
\* the parser and the request helper at rest
HelpersIdle ==
    /\ replyText = Null
    /\ parsed = NotParsed
    /\ attempt = 0
    /\ delay = initialDelayMs
    /\ waitMs = Num(0)
    /\ requests = 0
    /\ last = NoResponse
    /\ backoff = "idle"
    /\ replies = [q \in Questions |-> NotProcessed]

\* the state after construction (useState initial values)
InitApp ==
    /\ apiKey = FALSE
    /\ csvData = FALSE
    /\ results = Null
    /\ selectedEdits = [q \in Questions |-> {}]
    /\ isLoading = FALSE
    /\ error = ""
    /\ pending = {}
    /\ crashed = FALSE

(***************************************************************************)
(* The engine on its own: one call on every input of the bounded sets.     *)
(***************************************************************************)
InitEngine ==
    /\ HelpersIdle
    /\ CoverageIdle
    /\ original \in Originals
    /\ edits \in Batches
    /\ returned = NotCalled
    /\ InitApp

\* the caller's array after a call: the array the call worked on when that
\* is the caller's own, and each of its objects as the call left it
InputAfterCall(orig, ret) ==
    LET elems == IF ret.ref = "input" THEN ret.elems ELSE orig.elems
        Left(c) == IF c.id # 0 /\ \E k \in 1 .. Len(ret.elems) : ret.elems[k].id = c.id
                   THEN (CHOOSE d \in {ret.elems[k] : k \in 1 .. Len(ret.elems)} :
                            d.id = c.id)
                   ELSE c
    IN [ref |-> "input", elems |-> [k \in 1 .. Len(elems) |-> Left(elems[k])]]

CallApplyStructuredEdits ==
    /\ returned = NotCalled
    /\ returned' = applyStructuredEdits(original, edits)
    /\ original' = InputAfterCall(original, returned')
    /\ UNCHANGED edits
    /\ UNCHANGED appVars
    /\ UNCHANGED coverageVars
    /\ UNCHANGED <<parserVars, backoffVars, analysisVars>>

NextEngine == CallApplyStructuredEdits

SpecEngine == InitEngine /\ [][NextEngine]_vars

\* the engine called with one operation, or with patches only
InitSingle ==
    /\ HelpersIdle
    /\ CoverageIdle
    /\ original \in Originals
    /\ edits \in SingleBatches
    /\ returned = NotCalled
    /\ InitApp

SpecSingle == InitSingle /\ [][NextEngine]_vars

(***************************************************************************)
(* Handlers of the app.                                                    *)
(***************************************************************************)
\* results?.[qcol]
ResultOf(res, q) == IF IsNull(res) THEN Undef ELSE res[q]
\* the theme list of a question, empty when there is none
ThemesOf(res, q) == IF IsArray(ResultOf(res, q)) THEN ResultOf(res, q).arr ELSE <<>>
\* the question has a block in the Themes card
Rendered(q) == ~IsUndef(ResultOf(results, q))

\* the API key field is edited: filled in, or blanked
setApiKey(filled) ==
    /\ ~crashed
    /\ apiKey' = filled
    /\ UNCHANGED <<csvData, results, selectedEdits, isLoading, error, pending, crashed>>
    /\ UNCHANGED engineVars
    /\ UNCHANGED coverageVars
    /\ UNCHANGED <<parserVars, backoffVars, analysisVars>>

\* handleFileUpload with a parsable CSV file
handleFileUpload ==
    /\ ~crashed
    /\ csvData' = TRUE
    /\ error' = ""
    /\ UNCHANGED <<results, selectedEdits, isLoading, pending, crashed>>
    /\ UNCHANGED <<apiKey, original, edits, returned>>
    /\ UNCHANGED coverageVars
    /\ UNCHANGED <<parserVars, backoffVars, analysisVars>>

\* clearData: the Clear Data button is rendered while a CSV is loaded
clearData ==
    /\ ~crashed
    /\ csvData
    /\ csvData' = FALSE
    /\ results' = Null
    /\ error' = ""
    /\ UNCHANGED <<selectedEdits, isLoading, pending, crashed>>
    /\ UNCHANGED <<apiKey, original, edits, returned>>
    /\ UNCHANGED coverageVars
    /\ UNCHANGED <<parserVars, backoffVars, analysisVars>>

\* analyzeData: one of its early returns, before anything is sent
AnalyzeRejected ==
    /\ ~crashed
    /\ ~isLoading
    /\ \/ /\ ~apiKey
          /\ error' = "Please enter your OpenAI API key."
       \/ /\ apiKey
          /\ ~csvData
          /\ error' = "Please upload a CSV file first."
    /\ UNCHANGED <<csvData, results, selectedEdits, isLoading, pending, crashed>>
    /\ UNCHANGED <<apiKey, original, edits, returned>>
    /\ UNCHANGED coverageVars
    /\ UNCHANGED <<parserVars, backoffVars, analysisVars>>

\* analyzeData up to its first await
AnalyzeStart ==
    /\ ~crashed
    /\ ~isLoading
    /\ apiKey
    /\ csvData
    /\ isLoading' = TRUE
    /\ error' = ""
    /\ pending' = pending \cup {[kind |-> "analyze"]}
    /\ UNCHANGED <<csvData, results, selectedEdits, crashed>>
    /\ UNCHANGED <<apiKey, original, edits, returned>>
    /\ UNCHANGED coverageVars
    /\ UNCHANGED <<parserVars, backoffVars, analysisVars>>

\* analyzeData after its loop over the columns: setResults(allResults)
AnalyzeFinish(r, rs) ==
    /\ ~crashed
    /\ r \in pending
    /\ r.kind = "analyze"
    /\ Len(columnsToProcess(rs)) > 0
    /\ results' = analyzeLoop(columnsToProcess(rs), rs, 1, NoResults)
    /\ isLoading' = FALSE
    /\ pending' = pending \ {r}
    /\ UNCHANGED <<csvData, selectedEdits, error, crashed>>
    /\ UNCHANGED <<apiKey, original, edits, returned>>
    /\ UNCHANGED coverageVars
    /\ UNCHANGED <<parserVars, backoffVars, analysisVars>>

toggleThemeSelection(q, idx) ==
    /\ ~crashed
    /\ idx < Len(ThemesOf(results, q))
    /\ selectedEdits' =
          [selectedEdits EXCEPT ![q] =
              IF idx \in @ THEN @ \ {idx} ELSE @ \cup {idx}]
    /\ UNCHANGED <<csvData, results, isLoading, error, pending, crashed>>
    /\ UNCHANGED <<apiKey, original, edits, returned>>
    /\ UNCHANGED coverageVars
    /\ UNCHANGED <<parserVars, backoffVars, analysisVars>>

selectAllThemesForQuestion(q) ==
    /\ ~crashed
    /\ IsArray(ResultOf(results, q))
    /\ selectedEdits' =
          [selectedEdits EXCEPT ![q] = 0 .. Len(ThemesOf(results, q)) - 1]
    /\ UNCHANGED <<csvData, results, isLoading, error, pending, crashed>>
    /\ UNCHANGED <<apiKey, original, edits, returned>>
    /\ UNCHANGED coverageVars
    /\ UNCHANGED <<parserVars, backoffVars, analysisVars>>

clearSelectionsForQuestion(q) ==
    /\ ~crashed
    /\ Rendered(q)
    /\ selectedEdits' = [selectedEdits EXCEPT ![q] = {}]
    /\ UNCHANGED <<csvData, results, isLoading, error, pending, crashed>>
    /\ UNCHANGED <<apiKey, original, edits, returned>>
    /\ UNCHANGED coverageVars
    /\ UNCHANGED <<parserVars, backoffVars, analysisVars>>

\* variant of ReevaluateEnabled: disabled only by an empty selection
ReevaluateEnabledWhileLoading(q) ==
    /\ Rendered(q)
    /\ selectedEdits[q] # {}

\* the Reevaluate button of q can be clicked
ReevaluateEnabled(q) ==
    /\ Rendered(q)
    /\ ~isLoading
    /\ selectedEdits[q] # {}

\* variant of EditRejected: setIsLoading(true) stands before the checks
EditRejectedLoading(q) ==
    /\ ~crashed
    /\ ReevaluateEnabled(q)
    /\ ~apiKey \/ ~csvData \/ ~IsArray(ResultOf(results, q))
    /\ error' = "No themes available to edit for the selected question."
    /\ isLoading' = TRUE
    /\ UNCHANGED <<csvData, results, selectedEdits, pending, crashed>>
    /\ UNCHANGED <<apiKey, original, edits, returned>>
    /\ UNCHANGED coverageVars
    /\ UNCHANGED <<parserVars, backoffVars, analysisVars>>

\* onEditSelectedForQuestion: one of its early returns
EditRejected(q) ==
    /\ ~crashed
    /\ ReevaluateEnabled(q)
    /\ \/ /\ ~apiKey
          /\ error' = "Please enter your OpenAI API key."
       \/ /\ apiKey
          /\ ~csvData
          /\ error' = "Please upload a CSV file first."
       \/ /\ apiKey
          /\ csvData
          /\ ~IsArray(ResultOf(results, q))
          /\ error' = "No themes available to edit for the selected question."
    /\ UNCHANGED <<csvData, results, selectedEdits, isLoading, pending, crashed>>
    /\ UNCHANGED <<apiKey, original, edits, returned>>
    /\ UNCHANGED coverageVars
    /\ UNCHANGED <<parserVars, backoffVars, analysisVars>>

\* onEditSelectedForQuestion up to the await in llmEditThemes: the prompt
\* is built from the theme list of the render the click came from
EditStart(q) ==
    /\ ~crashed
    /\ ReevaluateEnabled(q)
    /\ apiKey
    /\ csvData
    /\ IsArray(ResultOf(results, q))
    /\ isLoading' = TRUE
    /\ error' = ""
    /\ pending' = pending \cup
          {[kind |-> "edit", qcol |-> q, themes |-> ThemesOf(results, q)]}
    /\ UNCHANGED <<csvData, results, selectedEdits, crashed>>
    /\ UNCHANGED <<apiKey, original, edits, returned>>
    /\ UNCHANGED coverageVars
    /\ UNCHANGED <<parserVars, backoffVars, analysisVars>>

\* variant of EditCatch: the failure is swallowed, no message is set
EditCatchSwallow(r, msg) ==
    /\ isLoading' = FALSE
    /\ pending' = pending \ {r}
    /\ UNCHANGED <<csvData, results, selectedEdits, error, crashed>>

\* the catch and finally blocks of onEditSelectedForQuestion
EditCatch(r, msg) ==
    /\ error' = "Edit failed: " \o msg
    /\ isLoading' = FALSE
    /\ pending' = pending \ {r}
    /\ UNCHANGED <<csvData, results, selectedEdits, crashed>>

\* postChatWithBackoff rethrew (HTTP error, retries exhausted)
EditHttpError(r) ==
    /\ ~crashed
    /\ r \in pending
    /\ r.kind = "edit"
    /\ EditCatch(r, "HTTP error")
    /\ UNCHANGED <<apiKey, original, edits, returned>>
    /\ UNCHANGED coverageVars
    /\ UNCHANGED <<parserVars, backoffVars, analysisVars>>

\* parseJsonMaybe threw on the reply
EditUnparseable(r) ==
    /\ ~crashed
    /\ r \in pending
    /\ r.kind = "edit"
    /\ EditCatch(r, "The model did not return valid JSON for structured edits.")
    /\ UNCHANGED <<apiKey, original, edits, returned>>
    /\ UNCHANGED coverageVars
    /\ UNCHANGED <<parserVars, backoffVars, analysisVars>>

\* the reply parsed to a value that is no array
EditNotArray(r) ==
    /\ ~crashed
    /\ r \in pending
    /\ r.kind = "edit"
    /\ EditCatch(r, "Edits must be a JSON array.")
    /\ UNCHANGED <<apiKey, original, edits, returned>>
    /\ UNCHANGED coverageVars
    /\ UNCHANGED <<parserVars, backoffVars, analysisVars>>

\* the updater of applyEditPatches(qcol, patchesOrOps) on the state prev
applyEditPatches(prev, qcol, patchesOrOps) ==
    LET arr == InputArray(ThemesOf(prev, qcol))
        updated == applyStructuredEdits(CopyArray(arr), patchesOrOps)
    IN [threw |-> updated.threw,
        next |-> [q \in Questions |->
                    IF q = qcol THEN Arr(Vals(updated.elems))
                    ELSE ResultOf(prev, q)]]

\* the reply parsed to an array: applyEditPatches, setSuccess, finally
EditApply(r, ops) ==
    /\ ~crashed
    /\ r \in pending
    /\ r.kind = "edit"
    /\ LET u == applyEditPatches(results, r.qcol, ops)
       IN IF u.threw
          THEN /\ crashed' = TRUE
               /\ UNCHANGED <<results, isLoading, pending>>
          ELSE /\ Len(ThemesOf(u.next, r.qcol)) <= MaxAppThemes
               /\ results' = u.next
               /\ isLoading' = FALSE
               /\ pending' = pending \ {r}
               /\ UNCHANGED crashed
    /\ UNCHANGED <<csvData, selectedEdits, error>>
    /\ UNCHANGED <<apiKey, original, edits, returned>>
    /\ UNCHANGED coverageVars
    /\ UNCHANGED <<parserVars, backoffVars, analysisVars>>

Init ==
    /\ HelpersIdle
    /\ InitApp
    /\ CoverageIdle
    /\ original = InputArray(<<>>)
    /\ edits = <<>>
    /\ returned = NotCalled

Next ==
    \/ \E filled \in BOOLEAN : setApiKey(filled)
    \/ handleFileUpload
    \/ clearData
    \/ AnalyzeRejected
    \/ AnalyzeStart
    \/ \E r \in pending, rs \in [Questions -> AppReplies \cup {NotProcessed}] :
          AnalyzeFinish(r, rs)
    \/ \E q \in Questions, idx \in 0 .. MaxAppThemes - 1 : toggleThemeSelection(q, idx)
    \/ \E q \in Questions : selectAllThemesForQuestion(q)
    \/ \E q \in Questions : clearSelectionsForQuestion(q)
    \/ \E q \in Questions : EditRejected(q)
    \/ \E q \in Questions : EditStart(q)
    \/ \E r \in pending : EditHttpError(r)
    \/ \E r \in pending : EditUnparseable(r)
    \/ \E r \in pending : EditNotArray(r)
    \/ \E r \in pending, ops \in ReplyBatches : EditApply(r, ops)

Spec == Init /\ [][Next]_vars

(***************************************************************************)
(* Coverage percentages of the Themes card.                                *)
(***************************************************************************)
\* isMeaningful(text, minChars = 3)
minChars == 3
PLACEHOLDERS ==
    {"", " ", "na", "n a", "n/a", "none", "no response", "no comment", "nil",
     ".", "-", "--"}
\* the cell texts of the model: an answer, a placeholder, a short answer,
\* white space
CellTexts == {"good answer", "N/A", "ok", " "}
\* String.prototype.trim on the cell texts
Trim(s) == IF s = " " THEN "" ELSE s
\* normalizePlaceholder(s) on the trimmed cell texts: runs of characters
\* that are no letter or digit become one blank, then trim and lower case
normalizePlaceholder(s) == IF s = "N/A" THEN "n a" ELSE s
isMeaningful(text) ==
    LET t == Trim(text)
    IN IF Len(t) < minChars THEN FALSE
       ELSE normalizePlaceholder(t) \notin PLACEHOLDERS

\* a row of the CSV: its ID cell and its cell in the question column
Row(id, answer) == [id |-> id, answer |-> answer]
\* computeQuestionUniverse(rows, idCol, qcol, skipBlanks)
computeQuestionUniverse(rws, skipBlanks) ==
    IF ~IsArray(rws) THEN {}
    ELSE { JsString(Coalesce(rws.arr[i].id, Num(i))) :
             i \in { k \in 1 .. Len(rws.arr) :
                       LET txt == Trim(JsString(Coalesce(rws.arr[k].answer, Str(""))))
                       IN IF skipBlanks THEN isMeaningful(txt) ELSE txt # "" } }

\* Array.isArray(t.ParticipantID) ? t.ParticipantID
\*   : (t.ParticipantID != null ? [t.ParticipantID] : [])
idsArr(t) ==
    LET p == Get(t, "ParticipantID")
    IN IF IsArray(p) THEN p.arr
       ELSE IF ~Nullish(p) THEN <<p>>
       ELSE <<>>
\* the fallback denominator: the IDs of all the themes that are neither
\* null nor the empty string
unionAssigned(thms) ==
    IF ~IsArray(thms) THEN {}
    ELSE UNION { { JsString(idsArr(thms.arr[k])[j]) :
                     j \in { i \in 1 .. Len(idsArr(thms.arr[k])) :
                               /\ ~Nullish(idsArr(thms.arr[k])[i])
                               /\ JsString(idsArr(thms.arr[k])[i]) # "" } } :
                 k \in 1 .. Len(thms.arr) }
denom(universe, union) ==
    IF Cardinality(universe) > 0 THEN Cardinality(universe)
    ELSE Cardinality(union)
safeDenom(d) == IF d > 0 THEN d ELSE 1
\* new Set(idsArr.map((v) => String(v))).size
themeCount(t) ==
    Cardinality({JsString(idsArr(t)[j]) : j \in 1 .. Len(idsArr(t))})
\* Math.round((themeCount / safeDenom) * 1000) / 10, held in tenths of a
\* percent; with the counts of the model the quotient is never within
\* rounding error of a half
pctTenths(count, d) == (2000 * count + d) \div (2 * d)

\* the percentages of one question block, one per theme
Shown(tenths) == [tenths |-> tenths]
CoverageOf(rws, thms, skipBlanks) ==
    LET d == safeDenom(denom(computeQuestionUniverse(rws, skipBlanks),
                             unionAssigned(thms)))
    IN IF IsArray(thms)
       THEN Shown([k \in 1 .. Len(thms.arr) |->
                     pctTenths(themeCount(thms.arr[k]), d)])
       ELSE Shown(<<>>)

\* rows and theme lists of the coverage harness
RowKinds ==
    { Row(Str("1"), Str("good answer")), Row(Num(2), Str("good answer")),
      Row(Str("2"), Str("N/A")), Row(Undef, Str("good answer")),
      Row(Str("3"), Undef), Row(Str("4"), Str("ok")), Row(Str("5"), Str(" ")) }
MaxRows == 3
RowLists == {Null} \cup {Arr(r) : r \in SeqsUpTo(RowKinds, MaxRows)}
ParticipantLists ==
    { Arr(<<>>), Arr(<<Str("1")>>), Arr(<<Num(1), Str("1"), Str("2")>>),
      Arr(<<Str(""), Str("3")>>), Str("4"), Undef }
CoverageThemes ==
    { ThemeObj(Str("T"), Str("def"), Arr(<<>>), p) : p \in ParticipantLists }
ThemeLists ==
    {ErrorMarker} \cup {Arr(t) : t \in SeqsUpTo(CoverageThemes, MaxAppThemes)}

InitCoverage ==
    /\ HelpersIdle
    /\ InitApp
    /\ original = InputArray(<<>>)
    /\ edits = <<>>
    /\ returned = NotCalled
    /\ rows \in RowLists
    /\ qThemes \in ThemeLists
    /\ skipBlankCells \in BOOLEAN
    /\ pct = NotRendered

\* the question block is rendered
RenderCoverage ==
    /\ pct = NotRendered
    /\ pct' = CoverageOf(rows, qThemes, skipBlankCells)
    /\ UNCHANGED <<rows, qThemes, skipBlankCells>>
    /\ UNCHANGED engineVars
    /\ UNCHANGED appVars
    /\ UNCHANGED <<parserVars, backoffVars, analysisVars>>

NextCoverage == RenderCoverage

SpecCoverage == InitCoverage /\ [][NextCoverage]_vars

(***************************************************************************)
(* The parser on its own: one call on every reply text.                    *)
(***************************************************************************)
InitParser ==
    /\ InitApp
    /\ CoverageIdle
    /\ original = InputArray(<<>>)
    /\ edits = <<>>
    /\ returned = NotCalled
    /\ replyText \in ReplyTexts
    /\ parsed = NotParsed
    /\ attempt = 0
    /\ delay = initialDelayMs
    /\ waitMs = Num(0)
    /\ requests = 0
    /\ last = NoResponse
    /\ backoff = "idle"
    /\ replies = [q \in Questions |-> NotProcessed]

CallParseJsonMaybe ==
    /\ parsed = NotParsed
    /\ parsed' = parseJsonMaybe(replyText)
    /\ UNCHANGED replyText
    /\ UNCHANGED <<engineVars, appVars, coverageVars, backoffVars, analysisVars>>

NextParser == CallParseJsonMaybe

SpecParser == InitParser /\ [][NextParser]_vars

(***************************************************************************)
(* The request helper on its own: one call, the server answering each      *)
(* request with any of the responses.                                      *)
(***************************************************************************)
InitBackoff ==
    /\ InitApp
    /\ CoverageIdle
    /\ original = InputArray(<<>>)
    /\ edits = <<>>
    /\ returned = NotCalled
    /\ replyText = Null
    /\ parsed = NotParsed
    /\ attempt = 0
    /\ delay = initialDelayMs
    /\ waitMs = Num(0)
    /\ requests = 0
    /\ last = NoResponse
    /\ backoff = "post"
    /\ replies = [q \in Questions |-> NotProcessed]

\* await axios.post(...) resolves: the response is returned
PostResolves(resp) ==
    /\ backoff = "post"
    /\ Resolves(resp)
    /\ requests' = requests + 1
    /\ last' = resp
    /\ backoff' = "returned"
    /\ UNCHANGED <<attempt, delay, waitMs>>
    /\ UNCHANGED <<engineVars, appVars, coverageVars, parserVars, analysisVars>>

\* await axios.post(...) rejects with a status that is not retried, or with
\* no response: throw err
PostFails(resp) ==
    /\ backoff = "post"
    /\ ~Resolves(resp)
    /\ ~Retryable(resp.status)
    /\ requests' = requests + 1
    /\ last' = resp
    /\ backoff' = "threw"
    /\ UNCHANGED <<attempt, delay, waitMs>>
    /\ UNCHANGED <<engineVars, appVars, coverageVars, parserVars, analysisVars>>

\* await axios.post(...) rejects with 429 or 5xx: attempt++, then throw err
\* when the retries are used up, else compute the wait and sleep
PostRetried(resp, jitter) ==
    /\ backoff = "post"
    /\ ~Resolves(resp)
    /\ Retryable(resp.status)
    /\ requests' = requests + 1
    /\ last' = resp
    /\ attempt' = attempt + 1
    /\ IF attempt' > maxRetries
       THEN /\ backoff' = "threw"
            /\ UNCHANGED waitMs
       ELSE /\ backoff' = "sleep"
            /\ waitMs' = WaitFor(resp.retryAfter, delay, jitter)
    /\ UNCHANGED delay
    /\ UNCHANGED <<engineVars, appVars, coverageVars, parserVars, analysisVars>>

\* await sleep(waitMs) resolves: delay = Math.min(12000, delay * 2); continue
SleepElapses ==
    /\ backoff = "sleep"
    /\ delay' = Min2(maxDelayMs, delay * 2)
    /\ backoff' = "post"
    /\ UNCHANGED <<attempt, waitMs, requests, last>>
    /\ UNCHANGED <<engineVars, appVars, coverageVars, parserVars, analysisVars>>

NextBackoff ==
    \/ \E resp \in Responses : PostResolves(resp)
    \/ \E resp \in Responses : PostFails(resp)
    \/ \E resp \in Responses, jitter \in Jitters : PostRetried(resp, jitter)
    \/ SleepElapses

\* every request settles and every timer fires
SpecBackoff == InitBackoff /\ [][NextBackoff]_vars /\ WF_vars(NextBackoff)

(***************************************************************************)
(* An analysis run on its own: the loop ends on every combination of       *)
(* column replies.                                                         *)
(***************************************************************************)
InitAnalysis ==
    /\ apiKey = TRUE
    /\ csvData = TRUE
    /\ results = Null
    /\ selectedEdits = [q \in Questions |-> {}]
    /\ isLoading = TRUE
    /\ error = ""
    /\ pending = {[kind |-> "analyze"]}
    /\ crashed = FALSE
    /\ CoverageIdle
    /\ original = InputArray(<<>>)
    /\ edits = <<>>
    /\ returned = NotCalled
    /\ replyText = Null
    /\ parsed = NotParsed
    /\ attempt = 0
    /\ delay = initialDelayMs
    /\ waitMs = Num(0)
    /\ requests = 0
    /\ last = NoResponse
    /\ backoff = "idle"
    /\ replies \in [Questions -> ColumnReplies \cup {NotProcessed}]
    /\ Len(columnsToProcess(replies)) > 0

NextAnalysis == \E r \in pending : AnalyzeFinish(r, replies)

SpecAnalysis == InitAnalysis /\ [][NextAnalysis]_vars

(***************************************************************************)
(* Properties of the engine, checked under SpecEngine.                     *)
(***************************************************************************)
\* the call has been made
Called == returned # NotCalled
\* every element is an object and one at least carries an op tag
TaggedBatch(b) ==
    /\ \A k \in 1 .. Len(b) : IsObject(b[k])
    /\ \E k \in 1 .. Len(b) : ~IsUndef(b[k].op)

\* the phase an element of a tagged batch belongs to, 0 for none
PhaseOf(e) ==
    IF IsMergeSplit(e) THEN 1
    ELSE IF IsDelete(e) THEN 2
    ELSE IF IsReplace(e) THEN 3
    ELSE IF IsInsert(e) THEN 4
    ELSE 0

Perms(n) == {f \in [1 .. n -> 1 .. n] : \A i, j \in 1 .. n : i # j => f[i] # f[j]}
\* the reorderings of b that keep the relative order within each phase
Reorderings(b) ==
    { [k \in 1 .. Len(b) |-> b[f[k]]] :
        f \in { g \in Perms(Len(b)) :
                  \A k, l \in 1 .. Len(b) :
                      (k < l /\ PhaseOf(b[g[k]]) # 0
                             /\ PhaseOf(b[g[k]]) = PhaseOf(b[g[l]]))
                          => g[k] < g[l] } }
\* the batch sorted by phase, input order kept within a phase
ByPhase(b) ==
    SelectSeq(b, IsMergeSplit) \o SelectSeq(b, IsDelete)
        \o SelectSeq(b, IsReplace) \o SelectSeq(b, IsInsert)

\* C1: applyStructuredEdits never raises: whatever the theme list and the
\* edits array (null elements, non-objects, unknown ops, ill-typed fields),
\* the call returns a theme list.
C1_NeverRaises == Called => ~returned.threw

\* C2: for a tagged batch, every reordering that keeps the relative order of
\* the operations within each phase gives the same result, which is the one
\* of running merges/splits, then deletes, then replaces, then inserts.
C2_PhaseOrderIndependent ==
    (Called /\ TaggedBatch(edits)) =>
        /\ \A b \in Reorderings(edits) :
              applyStructuredEdits(original, b)
                  = returned
        /\ returned.elems =
              InOrder(original.elems, ByPhase(edits))

\* C2 witness: an operation of a later phase stands before one of an
\* earlier phase, and running the batch in input order gives another list
C2_Witness ==
    /\ Called
    /\ TaggedBatch(edits)
    /\ \E k, l \in 1 .. Len(edits) :
          k < l /\ PhaseOf(edits[l]) # 0 /\ PhaseOf(edits[k]) > PhaseOf(edits[l])
    /\ returned.elems # InOrder(original.elems, edits)

\* the indices of all the delete operations of b together
UnionOfDeletes(b) ==
    UNION { IF IsDelete(b[k]) /\ IsArray(b[k].indices)
            THEN NumSet(b[k].indices.arr) ELSE {} : k \in 1 .. Len(b) }
NotDelete(e) == ~IsDelete(e)
\* b with its delete operations replaced by one carrying the union
WithOneDelete(b) ==
    SelectSeq(b, NotDelete) \o <<DeleteOp(NumArr(SortAsc(UnionOfDeletes(b))))>>

\* C3: several delete operations remove exactly the themes at the union of
\* their indices, as positions of the array phase 1 produced: the result is
\* that of one delete operation carrying the deduplicated union.
C3_DeletesRemoveUnion ==
    (Called /\ TaggedBatch(edits) /\ Len(SelectSeq(edits, IsDelete)) >= 2) =>
        returned = applyStructuredEdits(original, WithOneDelete(edits))

\* the array phase 1 leaves for the batch of the call
AfterPhase1 == MergeSplitPhase(original.elems, edits)
AfterPhase2 == DeletePhase(AfterPhase1, edits)

\* C4 as stated: replace (like delete and insert) names a position of the
\* array left by phase 1, also when the batch deletes: the result is the
\* phase-1 array with the replaced positions overwritten, then the deletes
\* and the inserts applied.
C4_ReplaceNamesPhase1Position ==
    (Called /\ TaggedBatch(edits)) =>
        returned.elems =
            InsertPhase(DeletePhase(ReplacePhase(AfterPhase1, edits), edits), edits)

\* the replace operations of b that overwrite position i of an array of
\* length n, in input order
ReplacesAt(b, i, n) ==
    LET Hits(e) == /\ IsReplace(e)
                   /\ IsFiniteNumber(ToNumber(e.index))
                   /\ ToNumber(e.index).num = i
                   /\ i >= 0 /\ i < n
    IN SelectSeq(b, Hits)

\* C4 amended: a replace names a position of the array left by the delete
\* phase: slot i of that array holds the normalized theme of the last
\* replace whose index is i, every other slot is kept, and the inserts are
\* applied to the array so obtained.
C4_ReplaceNamesPostDeletePosition ==
    (Called /\ TaggedBatch(edits)) =>
        LET D == AfterPhase2
            R == [k \in 1 .. Len(D) |->
                    LET hits == ReplacesAt(edits, k - 1, Len(D))
                    IN IF Len(hits) = 0 THEN D[k]
                       ELSE NewObject(normalizeTheme(hits[Len(hits)].theme,
                                                     "Theme " \o ToString(k)))]
        IN returned.elems = InsertPhase(R, edits)

\* C4 witness: a delete removed a theme, a replace overwrote a slot, and the
\* result is not the one of reading the replace against the phase-1 array
C4_Witness ==
    /\ Called
    /\ TaggedBatch(edits)
    /\ Len(AfterPhase2) < Len(AfterPhase1)
    /\ \E k \in 1 .. Len(AfterPhase2) : Len(ReplacesAt(edits, k - 1, Len(AfterPhase2))) > 0
    /\ returned.elems #
          InsertPhase(DeletePhase(ReplacePhase(AfterPhase1, edits), edits), edits)

\* the participant IDs of a theme, as strings
IdsOf(t) ==
    LET p == Get(t, "ParticipantID")
    IN IF IsArray(p) THEN {JsString(p.arr[j]) : j \in 1 .. Len(p.arr)}
       ELSE IF Nullish(p) THEN {}
       ELSE {JsString(p)}
\* the participant IDs that appear in one theme at least
CoveredIds(cells) == UNION {IdsOf(cells[k].val) : k \in 1 .. Len(cells)}

\* the batch removes and overwrites no ParticipantID list: inserts only on
\* the tagged path, patches without a ParticipantID array on the legacy path
AddsOnly(b) ==
    IF looksLegacy(b) = "legacy"
    THEN \A k \in 1 .. Len(b) : ~IsArray(Get(b[k], "ParticipantID"))
    ELSE /\ looksLegacy(b) = "tagged"
         /\ \A k \in 1 .. Len(b) :
               IsObject(b[k]) => PhaseOf(b[k]) \in {0, 4}

\* C5 as stated: every participant ID covered before the call is covered
\* after it, for every batch.
C5_CoveragePreserved ==
    (Called /\ ~returned.threw) =>
        CoveredIds(original.elems)
            \subseteq CoveredIds(returned.elems)

\* C5 amended: coverage is preserved by the batches that remove and
\* overwrite nothing (inserts; patches carrying no ParticipantID).
C5_CoveragePreservedByAdditions ==
    (Called /\ ~returned.threw /\ AddsOnly(edits)) =>
        CoveredIds(original.elems)
            \subseteq CoveredIds(returned.elems)

\* C5 witness: an insert was applied to a list that covers participants
C5_Witness ==
    /\ Called
    /\ ~returned.threw
    /\ AddsOnly(edits)
    /\ \E k \in 1 .. Len(edits) : IsObject(edits[k]) /\ IsInsert(edits[k])
    /\ CoveredIds(original.elems) # {}
    /\ Len(returned.elems) > Len(original.elems)

\* C9: applyStructuredEdits is pure: the caller's array and each of its
\* theme objects are as before the call, and the array returned is another
\* array than the caller's.
C9_Pure ==
    [][(returned = NotCalled /\ returned' # NotCalled /\ ~returned'.threw)
          => (original' = original /\ returned'.ref = "new")]_vars

\* C9 witness: a call returned a list that differs from its input
C9_Witness ==
    /\ Called
    /\ ~returned.threw
    /\ Len(original.elems) > 0
    /\ returned.elems # original.elems

\* b without its k-th element
Without(b, k) == SubSeq(b, 1, k - 1) \o SubSeq(b, k + 1, Len(b))
\* the k-th element of the batch is a replace whose index is a number
\* outside the bounds of the array the delete phase leaves
ReplaceOutOfRange(k) ==
    /\ IsReplace(edits[k])
    /\ IsFiniteNumber(ToNumber(edits[k].index))
    /\ \/ ToNumber(edits[k].index).num < 0
       \/ ToNumber(edits[k].index).num >= Len(AfterPhase2)

\* C15: a replace whose index is outside the bounds of the post-delete
\* array is skipped: the call returns, and what it returns is what the
\* other operations of the batch give without it (the input themes when
\* there is no other operation).
C15_OutOfRangeReplaceSkipped ==
    (Called /\ TaggedBatch(edits)) =>
        \A k \in 1 .. Len(edits) :
            ReplaceOutOfRange(k) =>
                /\ ~returned.threw
                /\ returned.elems = TaggedPath(original.elems, Without(edits, k))
                /\ Len(edits) = 1 => returned.elems = original.elems

\* C15 witness: replace with index 99 on a 2-element list, next to an
\* operation that is applied
C15_Witness ==
    /\ Called
    /\ TaggedBatch(edits)
    /\ Len(original.elems) = 2
    /\ \E k \in 1 .. Len(edits) :
          ReplaceOutOfRange(k) /\ edits[k].index = Num(99)
    /\ returned.elems # original.elems

\* the batch goes through the phases of the tagged path
OnTaggedPath(b) ==
    /\ Len(b) >= 1
    /\ \E k \in 1 .. Len(b) : ~IsObject(b[k]) \/ ~IsUndef(b[k].op)
\* a theme with its four fields, the participant IDs being strings
WellFormed(t) ==
    /\ IsObject(t)
    /\ ~Nullish(t.ThemeLabel)
    /\ ~Nullish(t.Definition)
    /\ IsArray(t.RepresentativeKeywords)
    /\ IsArray(t.ParticipantID)
    /\ \A j \in 1 .. Len(t.ParticipantID.arr) : IsStr(t.ParticipantID.arr[j])

\* C16: the list a call returns is dense: each of its positions holds a
\* theme object, none is a hole or undefined; and every theme a tagged
\* operation created carries the four fields, its participant IDs being
\* strings.
C16_DenseAndNormalized ==
    (Called /\ ~returned.threw) =>
        \A k \in 1 .. Len(returned.elems) :
            /\ returned.elems[k] # Hole
            /\ IsObject(returned.elems[k].val)
            /\ (OnTaggedPath(edits) /\ returned.elems[k].id = 0) =>
                  WellFormed(returned.elems[k].val)

\* C16 witness: a batch with an element that is no operation changed the
\* length of the list and created a theme from numeric participant IDs
C16_Witness ==
    /\ Called
    /\ ~returned.threw
    /\ OnTaggedPath(edits)
    /\ \E j \in 1 .. Len(edits) : ~IsObject(edits[j]) \/ PhaseOf(edits[j]) = 0
    /\ Len(returned.elems) # Len(original.elems)
    /\ \E k \in 1 .. Len(returned.elems) :
          /\ returned.elems[k].id = 0
          /\ returned.elems[k].val.ParticipantID = Arr(<<Str("1"), Str("8")>>)

\* C17: with an empty operation list the call returns the themes of the
\* input, the same objects in the same order.
C17_EmptyBatchNoOp ==
    (Called /\ Len(edits) = 0) =>
        /\ ~returned.threw
        /\ returned.elems = original.elems

\* C17 witness: the empty list applied to a list of several themes
C17_Witness ==
    /\ Called
    /\ Len(edits) = 0
    /\ Len(original.elems) >= 2
    /\ Len(returned.elems) = Len(original.elems)

(***************************************************************************)
(* Properties of one operation, checked under SpecSingle.                  *)
(***************************************************************************)
\* the batch of the call is the single element of kind name
OnlyOp(name) ==
    /\ Called
    /\ Len(edits) = 1
    /\ IsObject(edits[1])
    /\ OpIs(edits[1], name)
\* the positions 0..n-1 of the input list
Positions == 0 .. Len(original.elems) - 1
\* the index set an operation carries
IndexSet(op) == IF IsArray(op.indices) THEN NumSet(op.indices.arr) ELSE {}
\* the elements of cells at the positions outside S, in their order
KeepOutside(cells, S) ==
    LET kept == SortAsc({i \in 0 .. Len(cells) - 1 : i \notin S})
    IN [j \in 1 .. Len(kept) |-> cells[kept[j] + 1]]
\* the theme the defaulting rule builds from the fields f carries
FromFields(f, fallbackLabel) ==
    LET Field(name) == IF IsObject(f) THEN f[name] ELSE Undef
    IN [ThemeLabel |-> IF Nullish(Field("ThemeLabel")) THEN Str(fallbackLabel)
                       ELSE Field("ThemeLabel"),
        Definition |-> IF Nullish(Field("Definition")) THEN Str("")
                       ELSE Field("Definition"),
        RepresentativeKeywords |->
            IF IsArray(Field("RepresentativeKeywords"))
            THEN Field("RepresentativeKeywords") ELSE Arr(<<>>),
        ParticipantID |->
            IF IsArray(Field("ParticipantID"))
            THEN Arr([j \in 1 .. Len(Field("ParticipantID").arr) |->
                        Str(JsString(Field("ParticipantID").arr[j]))])
            ELSE Arr(<<>>)]

\* C11: a single merge whose k distinct indices are all in range and that
\* has no insertIndex returns a list of length n-k+1 with the merged theme,
\* built from the operation's own fields, at position min(indices), and the
\* themes not listed in their order.
C11_MergeDefaults ==
    LET S == IndexSet(edits[1])
    IN (/\ OnlyOp("merge")
        /\ S # {}
        /\ S \subseteq Positions
        /\ IsUndef(edits[1].insertIndex)) =>
           LET m == CHOOSE x \in S : \A y \in S : x <= y
           IN /\ ~returned.threw
              /\ Len(returned.elems) = Len(original.elems) - Cardinality(S) + 1
              /\ returned.elems[m + 1] =
                     NewObject(FromFields(edits[1], "Merged Theme"))
              /\ SpliceOut(returned.elems, m) = KeepOutside(original.elems, S)

\* C11 witness: [A,B,C] merged on {0,2}: two themes that are not
\* neighbours are merged, the one between them is kept
C11_Witness ==
    /\ OnlyOp("merge")
    /\ IsUndef(edits[1].insertIndex)
    /\ Len(original.elems) = 3
    /\ IndexSet(edits[1]) = {0, 2}
    /\ Len(returned.elems) = 2
    /\ returned.elems[2] = original.elems[2]

\* C12: a single split with in-range index i, r >= 1 replacements and no
\* insertIndex returns themes[0..i-1], the r normalized replacements in
\* order, themes[i+1..]; a split whose index is out of range returns the
\* list unchanged.
C12_SplitDefaults ==
    OnlyOp("split") =>
        LET i == ToNumber(edits[1].index)
            r == edits[1].replacements
            n == Len(original.elems)
        IN /\ ~returned.threw
           /\ (/\ IsFiniteNumber(i) /\ i.num \in Positions
               /\ IsArray(r) /\ Len(r.arr) >= 1
               /\ IsUndef(edits[1].insertIndex)) =>
                  returned.elems =
                      SubSeq(original.elems, 1, i.num)
                          \o [j \in 1 .. Len(r.arr) |->
                                 NewObject(FromFields(r.arr[j],
                                                      "Split " \o ToString(j)))]
                          \o SubSeq(original.elems, i.num + 2, n)
           /\ (~IsFiniteNumber(i) \/ i.num \notin Positions) =>
                  returned.elems = original.elems

\* C12 witness: a theme with a neighbour on each side is split in two
C12_Witness ==
    /\ OnlyOp("split")
    /\ IsUndef(edits[1].insertIndex)
    /\ edits[1].index = Num(1)
    /\ Len(original.elems) = 3
    /\ IsArray(edits[1].replacements)
    /\ Len(edits[1].replacements.arr) = 2
    /\ Len(returned.elems) = 4

\* C13: a single delete carrying the index set S returns the themes at the
\* positions not in S, in their order; indices outside 0..n-1 and
\* duplicates remove nothing more.
C13_DeleteSubsequence ==
    OnlyOp("delete") =>
        LET S == IndexSet(edits[1])
        IN /\ ~returned.threw
           /\ returned.elems = KeepOutside(original.elems, S)
           /\ Len(returned.elems) =
                  Len(original.elems) - Cardinality(S \cap Positions)

\* C13 witness: [A,B,C] with {0,2} and a repeated or out-of-range index
C13_Witness ==
    /\ OnlyOp("delete")
    /\ Len(original.elems) = 3
    /\ IsArray(edits[1].indices)
    /\ IndexSet(edits[1]) \cap Positions = {0, 2}
    /\ Len(edits[1].indices.arr) > 2
    /\ returned.elems = <<original.elems[2]>>

\* every element of the batch is an object without an op tag
PatchBatch(b) ==
    /\ Len(b) >= 1
    /\ \A k \in 1 .. Len(b) : IsObject(b[k]) /\ IsUndef(b[k].op)
\* the patch carries field f: a value for the two texts, an array for the
\* two lists
Carries(pt, f) ==
    IF f \in {"ThemeLabel", "Definition"} THEN ~Nullish(pt[f])
    ELSE IsArray(pt[f])
\* the patches of b whose index is position i, in input order
PatchesAt(b, i) ==
    LET Hits(pt) == /\ IsFiniteNumber(ToNumber(pt.index))
                    /\ ToNumber(pt.index).num = i
    IN SelectSeq(b, Hits)
\* the value of field f after the patches hits, old being the value before
Patched(hits, f, old) ==
    LET CarriesF(pt) == Carries(pt, f)
        with == SelectSeq(hits, CarriesF)
    IN IF Len(with) = 0 THEN old
       ELSE IF f = "ParticipantID"
            THEN Arr([j \in 1 .. Len(with[Len(with)][f].arr) |->
                        Str(JsString(with[Len(with)][f].arr[j]))])
            ELSE with[Len(with)][f]

\* C14: in an untagged batch a patch with in-range index overwrites only
\* the fields it carries and keeps the value of every field it omits; the
\* themes at other indices and the length of the list are unchanged; a
\* patch whose index is out of range or absent has no effect.
C14_LegacyPatchPerField ==
    (Called /\ PatchBatch(edits)) =>
        /\ ~returned.threw
        /\ Len(returned.elems) = Len(original.elems)
        /\ \A i \in Positions :
              LET hits == PatchesAt(edits, i)
                  old == original.elems[i + 1].val
              IN IF Len(hits) = 0
                 THEN returned.elems[i + 1] = original.elems[i + 1]
                 ELSE returned.elems[i + 1].val =
                        [f \in DOMAIN old |-> Patched(hits, f, old[f])]

\* C14 witness: theme 0 of a longer list is patched with a Definition only
C14_Witness ==
    /\ Called
    /\ edits = <<[EmptyObj EXCEPT !.index = Num(0), !.Definition = Str("new")]>>
    /\ Len(original.elems) >= 2
    /\ returned.elems[1].val.Definition = Str("new")
    /\ returned.elems[1].val.ThemeLabel = original.elems[1].val.ThemeLabel
    /\ returned.elems[1].val.ParticipantID = original.elems[1].val.ParticipantID

(***************************************************************************)
(* Properties of the phases, checked under SpecEngine.                     *)
(***************************************************************************)
\* every element of the batch is a replace operation
ReplaceBatch(b) ==
    /\ Len(b) >= 1
    /\ \A k \in 1 .. Len(b) : IsObject(b[k]) /\ IsReplace(b[k])

\* C26: replace is a full overwrite of one slot: in a batch of replaces the
\* list keeps its length, a slot no replace names holds the object it held,
\* and a slot replaces name holds the theme built from the fields of the
\* last of them in input order alone, defaults for the fields it omits.
C26_ReplaceFullOverwrite ==
    (Called /\ ReplaceBatch(edits)) =>
        /\ ~returned.threw
        /\ Len(returned.elems) = Len(original.elems)
        /\ \A i \in 0 .. Len(original.elems) - 1 :
              LET hits == ReplacesAt(edits, i, Len(original.elems))
              IN returned.elems[i + 1] =
                     IF Len(hits) = 0 THEN original.elems[i + 1]
                     ELSE NewObject(FromFields(hits[Len(hits)].theme,
                                               "Theme " \o ToString(i + 1)))

\* C26 witness: two replaces name the slot of a theme that has a
\* definition; the theme of the second, which omits every field, is the one
\* kept, and the neighbour is untouched
C26_Witness ==
    /\ Called
    /\ ReplaceBatch(edits)
    /\ Len(edits) = 2
    /\ Len(original.elems) >= 2
    /\ Len(ReplacesAt(edits, 0, Len(original.elems))) = 2
    /\ edits[1].theme # edits[2].theme
    /\ original.elems[1].val.Definition = Str("def")
    /\ returned.elems[1].val = ThemeObj(Str("Theme 1"), Str(""), Arr(<<>>), Arr(<<>>))
    /\ returned.elems[2] = original.elems[2]

\* the insert operations of b whose index is a number, in input order
FiniteInserts(b) ==
    LET Applies(e) == IsInsert(e) /\ IsFiniteNumber(ToNumber(e.index))
    IN SelectSeq(b, Applies)
\* cells with the theme of the insert op at its index: at the head for a
\* negative index, at the end for an index beyond the length
InsertedAt(cells, op) ==
    LET i == ToNumber(op.index).num
        n == Len(cells)
        c == IF i < 0 THEN 0 ELSE IF i > n THEN n ELSE i
    IN [k \in 1 .. n + 1 |->
           IF k <= c THEN cells[k]
           ELSE IF k = c + 1
                THEN NewObject(FromFields(op.theme, "Theme " \o ToString(c + 1)))
                ELSE cells[k - 1]]
RECURSIVE InsertedFrom(_, _, _)
InsertedFrom(cells, ins, k) ==
    IF k > Len(ins) THEN cells
    ELSE InsertedFrom(InsertedAt(cells, ins[k]), ins, k + 1)

\* C27: every insert whose index is a number adds one theme, at its index
\* clamped to [0, current length], the inserts running in input order on
\* the array the earlier ones left: the result is longer than the array of
\* the replace phase by the number of such inserts.
C27_InsertAddsOne ==
    (Called /\ TaggedBatch(edits)) =>
        LET R == ReplacePhase(AfterPhase2, edits)
            ins == FiniteInserts(edits)
        IN /\ ~returned.threw
           /\ Len(returned.elems) = Len(R) + Len(ins)
           /\ returned.elems = InsertedFrom(R, ins, 1)

\* C27 witness: an insert beyond the end and one before the head, the
\* second placed in the array that holds the first
C27_Witness ==
    /\ Called
    /\ TaggedBatch(edits)
    /\ Len(edits) = 2
    /\ Len(original.elems) = 2
    /\ IsInsert(edits[1]) /\ edits[1].index = Num(5)
    /\ IsInsert(edits[2]) /\ edits[2].index = Num(-1)
    /\ Len(returned.elems) = 4
    /\ returned.elems[1].id = 0 /\ returned.elems[4].id = 0
    /\ returned.elems[2] = original.elems[1]

\* every element of the batch is a merge or a split
MergeSplitBatch(b) ==
    /\ Len(b) >= 1
    /\ \A k \in 1 .. Len(b) : IsObject(b[k]) /\ IsMergeSplit(b[k])
\* what a call with the one operation op returns on the themes cells
AloneOn(cells, op) ==
    applyStructuredEdits([ref |-> "input", elems |-> cells], <<op>>).elems
RECURSIVE OneByOne(_, _, _)
\* a call per operation, each on the list the call before returned
OneByOne(cells, b, k) ==
    IF k > Len(b) THEN cells
    ELSE OneByOne(AloneOn(cells, b[k]), b, k + 1)
\* the index of a split is a number outside the bounds of cells
SplitIndexGone(cells, op) ==
    /\ OpIs(op, "split")
    /\ IsFiniteNumber(ToNumber(op.index))
    /\ ToNumber(op.index).num >= Len(cells)

\* C28: the merges and splits of a batch run in input order, each reading
\* its indices as positions of the array the ones before it left: the
\* result is that of one call per operation, each on the result of the call
\* before; a split whose index is no longer a position of that array
\* changes nothing, and a merge removes the themes at those of its indices
\* that are positions of that array and no other.
C28_MergeSplitSequential ==
    (Called /\ MergeSplitBatch(edits)) =>
        /\ ~returned.threw
        /\ returned.elems = OneByOne(original.elems, edits, 1)
        /\ LET lastOp == edits[Len(edits)]
               mid == OneByOne(original.elems, SubSeq(edits, 1, Len(edits) - 1), 1)
           IN /\ SplitIndexGone(mid, lastOp) => returned.elems = mid
              /\ (OpIs(lastOp, "merge") /\ IndexSet(lastOp) # {}) =>
                     \E p \in 0 .. Len(returned.elems) - 1 :
                         /\ returned.elems[p + 1] =
                                NewObject(FromFields(lastOp, "Merged Theme"))
                         /\ SpliceOut(returned.elems, p) =
                                KeepOutside(mid, IndexSet(lastOp))

\* C28 witness: a merge shortens the list, and the split after it names a
\* position the input list had and the merged list has not
C28_Witness ==
    /\ Called
    /\ MergeSplitBatch(edits)
    /\ Len(edits) = 2
    /\ OpIs(edits[1], "merge")
    /\ OpIs(edits[2], "split")
    /\ IsArray(edits[2].replacements)
    /\ IsFiniteNumber(ToNumber(edits[2].index))
    /\ ToNumber(edits[2].index).num \in 0 .. Len(original.elems) - 1
    /\ SplitIndexGone(AloneOn(original.elems, edits[1]), edits[2])
    /\ Len(returned.elems) < Len(original.elems)
    /\ returned.elems = AloneOn(original.elems, edits[1])

\* an element carries an op tag
CarriesTag(x) == IsObject(x) /\ ~IsUndef(x.op)
\* the elements of b that are operations of a known kind
KnownOp(x) == IsObject(x) /\ PhaseOf(x) # 0
\* C23: a batch is applied as legacy patches exactly when no element
\* carries an op tag; when one element carries a tag the whole batch takes
\* the tagged path, where the elements without a tag or with an unknown op
\* have no effect.
C23_ShapeAllOrNothing ==
    (Called /\ Len(edits) >= 1) =>
        /\ ~returned.threw
        /\ returned.elems =
              IF \E k \in 1 .. Len(edits) : CarriesTag(edits[k])
              THEN TaggedPath(original.elems, SelectSeq(edits, KnownOp))
              ELSE LegacyFrom(original.elems, edits, 1)

\* C24: a single merge whose indices are all outside the bounds of the list
\* is skipped: the list returned is the input list.
C24_MergeOutOfRangeSkipped ==
    (/\ OnlyOp("merge")
     /\ IndexSet(edits[1]) # {}
     /\ IndexSet(edits[1]) \cap Positions = {}) =>
        /\ ~returned.threw
        /\ returned.elems = original.elems

\* C25: a single replace with an in-range index and no theme leaves the
\* slot as it was, and a single insert with no theme adds nothing.
C25_MissingThemeSkipped ==
    ((OnlyOp("replace") \/ OnlyOp("insert")) /\ Nullish(edits[1].theme)) =>
        /\ ~returned.threw
        /\ returned.elems = original.elems

(***************************************************************************)
(* Properties of the parser, checked under SpecParser.                     *)
(***************************************************************************)
\* C22 as stated: a call of parseJsonMaybe returns an array or throws.
C22_ReturnsArrayOrThrows ==
    parsed # NotParsed => (parsed.threw \/ IsArray(parsed.value))

\* the texts parseJsonMaybe tries, in its order: the text without fences,
\* its first '[' to last ']', its first '{' to last '}'
Candidates(t) ==
    LET Between(open, close) ==
            IF indexOf(t, open) # -1 /\ lastIndexOf(t, close) > indexOf(t, open)
            THEN <<slice(t, indexOf(t, open), lastIndexOf(t, close))>>
            ELSE <<>>
    IN <<t>> \o Between("[", "]") \o Between("{", "}")
Parses(c) == JSONParse(c).ok
\* t is l, then a JSON array, then r
WrapsArray(t, l, r) ==
    /\ Len(l) + Len(r) <= Len(t)
    /\ SubSeq(t, 1, Len(l)) = l
    /\ SubSeq(t, Len(t) - Len(r) + 1, Len(t)) = r
    /\ Parses(SubSeq(t, Len(l) + 1, Len(t) - Len(r)))
    /\ IsArray(JSONParse(SubSeq(t, Len(l) + 1, Len(t) - Len(r))).val)

\* C22 amended: parseJsonMaybe returns the value of the first of its three
\* candidates that parses, whatever JSON value that is (an array, an
\* object, a number), and throws when none parses; a JSON array wrapped in
\* prose, blanks or fences yields that array, and no text yields [].
C22_FirstCandidateThatParses ==
    parsed # NotParsed =>
        IF replyText = Null THEN parsed = ParseReturned(Arr(<<>>))
        ELSE LET good == SelectSeq(Candidates(StripFences(replyText.chars)), Parses)
             IN /\ parsed = IF good = <<>> THEN ParseThrew
                            ELSE ParseReturned(JSONParse(good[1]).val)
                /\ \A l \in Leads, r \in Trails :
                      WrapsArray(replyText.chars, l, r) =>
                          parsed = ParseReturned(
                              JSONParse(SubSeq(replyText.chars, Len(l) + 1,
                                               Len(replyText.chars) - Len(r))).val)

\* C22 witness: "Sure! Here you go: [1,2,3] Hope that helps." gives [1,2,3]
C22_Witness ==
    /\ replyText = ProseExample
    /\ parsed = ParseReturned(Arr(<<Num(1), Num(2), Num(3)>>))

(***************************************************************************)
(* Properties of the request helper, checked under SpecBackoff.            *)
(***************************************************************************)
RECURSIVE Pow2(_)
Pow2(n) == IF n = 0 THEN 1 ELSE 2 * Pow2(n - 1)
\* the failures the helper is said to retry: status 429 or 500 and above
StatedRetry(resp) ==
    IsNum(resp.status) /\ (resp.status.num = 429 \/ resp.status.num >= 500)
\* the sleeps completed so far: one between two requests
SleepsDone == IF backoff = "post" THEN requests ELSE requests - 1
\* the call is over
BackoffDone == backoff \in {"returned", "threw"}
BackoffSafe ==
    /\ requests <= maxRetries + 1
    /\ requests >= 1 =>
          /\ requests <= attempt + 1
          /\ delay = Min2(maxDelayMs, initialDelayMs * Pow2(SleepsDone))
    /\ delay <= maxDelayMs
    /\ backoff = "returned" => Resolves(last)
    /\ backoff = "sleep" =>
          /\ StatedRetry(last)
          /\ attempt <= maxRetries
          /\ IF Falsy(last.retryAfter)
             THEN IsNum(waitMs) /\ waitMs.num \in delay .. delay + jitterMs - 1
             ELSE waitMs = IF IsNum(ToNumber(last.retryAfter))
                           THEN Num(1000 * ToNumber(last.retryAfter).num)
                           ELSE NaN
    /\ backoff = "threw" =>
          /\ ~Resolves(last)
          /\ IF StatedRetry(last)
             THEN attempt = maxRetries + 1 /\ requests = maxRetries + 1
             ELSE requests = attempt + 1
          /\ (~StatedRetry(last) /\ attempt = 0) => requests = 1

AnalysisDone == results # Null

\* C30 as stated: after a run results holds one entry per processed column
\* and each entry is an array of themes or a marker carrying _error or
\* _raw.
C30_EntryIsThemesOrMarker ==
    AnalysisDone =>
        \A q \in Questions :
            /\ IsUndef(results[q]) <=> replies[q] = NotProcessed
            /\ \/ IsUndef(results[q])
               \/ IsArray(results[q])
               \/ results[q] \in {ErrorMarker, RawMarker}

\* C30 amended: after a run results holds one entry per processed column
\* and none for the others: the _error marker when the request of the
\* column failed, the _raw marker when its content did not parse, and
\* otherwise the value parsed, be it an array of themes or another JSON
\* value; a failure on a column leaves the entries of the others as they
\* would be without it.
C30_EntryPerProcessedColumn ==
    AnalysisDone =>
        \A q \in Questions :
            /\ IsUndef(results[q]) <=> replies[q] = NotProcessed
            /\ replies[q] = Failed => results[q] = ErrorMarker
            /\ replies[q] = Replied(ParseThrew) => results[q] = RawMarker
            /\ \A v \in {Num(5), Obj(<<>>)}
                        \cup {Arr(InitialThemes(n)) : n \in 0 .. MaxAppThemes} :
                  replies[q] = Replied(ParseReturned(v)) => results[q] = v

\* C30 witness: the first column failed and the second has its themes
C30_Witness ==
    /\ AnalysisDone
    /\ replies["Q1"] = Failed
    /\ results["Q1"] = ErrorMarker
    /\ IsArray(results["Q2"])
    /\ Len(results["Q2"].arr) >= 1
    /\ ~isLoading

(***************************************************************************)
(* Properties of the app, checked under Spec.                              *)
(***************************************************************************)
\* C6: in every reachable state every index held in selectedEdits[q] is a
\* valid index 0..length-1 of the current theme list results[q].
C6_SelectionIndexesValid ==
    \A q \in Questions : \A idx \in selectedEdits[q] :
        idx >= 0 /\ idx < Len(ThemesOf(results, q))

\* the list changed its length, or a theme stands at another position
Reshaped(old, new) ==
    \/ Len(old) # Len(new)
    \/ \E i \in 1 .. Len(old), j \in 1 .. Len(new) :
          i # j /\ old[i] = new[j] /\ old[i] # new[i]

\* C7: once an applied edit batch changes the ordering or the length of the
\* theme list of q, the selection of q is empty.
C7_SelectionClearedOnReshape ==
    [][\A r \in pending :
          (/\ r.kind = "edit"
           /\ r \notin pending'
           /\ Reshaped(ThemesOf(results, r.qcol), ThemesOf(results', r.qcol)))
              => selectedEdits'[r.qcol] = {}]_vars

\* C8: while an edit request for q is in flight no step changes results[q],
\* and the list the reply is applied to is the list the prompt was built
\* from.
C8_ResultsStableInFlight ==
    [][\A r \in pending :
          r.kind = "edit" =>
              IF r \in pending'
              THEN ResultOf(results', r.qcol) = ResultOf(results, r.qcol)
              ELSE ThemesOf(results, r.qcol) = r.themes]_vars

C18_InputErrorsRejected ==
    [][/\ \A q \in Questions :
             EditRejected(q) =>
                 /\ error' # ""
                 /\ pending' = pending
                 /\ results' = results
                 /\ selectedEdits' = selectedEdits
                 /\ isLoading' = isLoading
       /\ \A r \in pending' \ pending :
             r.kind = "edit" =>
                 /\ apiKey
                 /\ csvData
                 /\ IsArray(ResultOf(results, r.qcol))
                 /\ selectedEdits[r.qcol] # {}]_vars

\* C18 witness: Reevaluate was clicked on a question that has a selection
\* and whose result is a marker, and was rejected
C18_Witness ==
    /\ error = "No themes available to edit for the selected question."
    /\ pending = {}
    /\ ~isLoading
    /\ \E q \in Questions :
          /\ Rendered(q)
          /\ ~IsArray(ResultOf(results, q))
          /\ selectedEdits[q] # {}

\* C19: at most one model request is in flight, and while one is, isLoading
\* is set, which disables Analyze and every Reevaluate button.
C19_OneRequestInFlight ==
    /\ Cardinality(pending) <= 1
    /\ pending # {} => isLoading

\* C19 witness: an edit request is in flight while another question has
\* themes and a selection
C19_Witness ==
    /\ ~crashed
    /\ apiKey
    /\ csvData
    /\ \E r \in pending :
          /\ r.kind = "edit"
          /\ \E q \in Questions \ {r.qcol} :
                /\ IsArray(ResultOf(results, q))
                /\ selectedEdits[q] # {}

(***************************************************************************)
(* Properties of the coverage display, checked under SpecCoverage.         *)
(***************************************************************************)
\* the IDs of every theme of the list, string-normalized
AllAssigned(thms) == UNION {IdsOf(thms[k]) : k \in 1 .. Len(thms)}
\* the denominator as stated: the universe, else the union of the IDs
\* assigned across the themes, else 1
StatedDenominator ==
    LET U == computeQuestionUniverse(rows, skipBlankCells)
        A == AllAssigned(qThemes.arr)
    IN IF U # {} THEN Cardinality(U)
       ELSE IF A # {} THEN Cardinality(A)
       ELSE 1

\* C20: the coverage shown for a theme is the number of its distinct
\* string-normalized IDs over D, times 100, rounded to one decimal, D
\* being the size of the respondent universe when that is not empty, else
\* the size of the union of the IDs of all the themes of the question when
\* that is not empty, else 1.
C20_CoverageDenominator ==
    (pct # NotRendered /\ IsArray(qThemes)) =>
        /\ Len(pct.tenths) = Len(qThemes.arr)
        /\ \A k \in 1 .. Len(qThemes.arr) :
              LET c == Cardinality(IdsOf(qThemes.arr[k]))
                  D == StatedDenominator
              IN /\ 10 * pct.tenths[k] * D <= 10000 * c + 5 * D
                 /\ 10 * pct.tenths[k] * D > 10000 * c - 5 * D

\* C21: the coverage of a theme is the fraction of the respondent universe
\* whose ID appears in the theme: only IDs of the universe are counted, so
\* with a non-empty universe the percentage shown lies between 0 and 100.
C21_CoverageWithinUniverse ==
    LET U == computeQuestionUniverse(rows, skipBlankCells)
    IN (pct # NotRendered /\ IsArray(qThemes) /\ U # {}) =>
           \A k \in 1 .. Len(qThemes.arr) :
               LET c == Cardinality(IdsOf(qThemes.arr[k]) \cap U)
               IN /\ pct.tenths[k] >= 0
                  /\ pct.tenths[k] <= 1000
                  /\ pct.tenths[k] = pctTenths(c, Cardinality(U))

====
